---- MODULE Spec2Model ----
(***************************************************************************)
(* Volume / mute reconciliation of one DCM1 control target (a MixerZone    *)
(* or a MixerGroup of custom_components/dcm1/media_player.py).             *)
(*                                                                         *)
(* Volumes are the floats of the source, represented exactly as integer    *)
(* multiples of 1/VolUnits (0.05 = 1/20, the step of volume_up/down).      *)
(* An optional value (None in the source) is the empty tuple, a set value  *)
(* x is the one-element tuple <<x>>.  A level delivered by the device is   *)
(* either the string token "mute" or an integer: <<"mute">> / <<"int", n>>.*)
(*                                                                         *)
(* Each handler of the source is an operator from the fields of the target *)
(* to its fields afterwards; an action applies one handler.  Besides the   *)
(* volume and mute handlers the module has the connectivity, source, label *)
(* and line-input events MixerListener forwards to the target.             *)
(***************************************************************************)
EXTENDS Integers, Sequences, FiniteSets, TLC

VARIABLES
    kind,                           \* "zone" (MixerZone) or "group" (MixerGroup)
    use_optimistic_volume,          \* self._use_optimistic_volume
    config_volume_db_range,         \* the configured volume_db_range handed to the constructor
    volume_db_range,                \* self._volume_db_range
    volume_level,                   \* self._volume_level (confirmed volume)
    pending_volume,                 \* self._pending_volume
    pending_raw_volume_level,       \* self._pending_raw_volume_level
    pending_volume_rejected_count,  \* self._pending_volume_rejected_count
    is_volume_muted,                \* self._is_volume_muted
    raw_volume_level,               \* self._raw_volume_level
    pre_mute_volume,                \* self._pre_mute_volume
    pre_mute_raw_volume,            \* self._pre_mute_raw_volume
    attr_volume_level,              \* self._attr_volume_level (displayed volume)
    attr_is_volume_muted,           \* self._attr_is_volume_muted (displayed mute)
    use_zone_labels,                \* self._use_zone_labels
    sources_by_id,                  \* self._mixer.sources_by_id: the ids of the catalogue, in order
    attr_available,                 \* self._attr_available
    attr_source,                    \* self._attr_source (a source is named by its id)
    enabled_line_inputs,            \* self._enabled_line_inputs
    attr_source_list,               \* self._attr_source_list
    device_name,                    \* self._attr_device_info["name"]
    sent,                           \* levels handed to mixer.set_*_volume by the last volume or mute operation
    last_op,                        \* which volume or mute handler ran last, and the branch it took
    reports_since_issue,            \* history: reports handled since the pending command was issued
    replaced_volume,                \* history: the pending volume the pending command overwrote
    round_trip,                     \* history: the mute/unmute round trip under way
    mixer_zone_entities,            \* MixerListener.mixer_zone_entities: zone id -> fields of the zone
    mixer_group_entities,           \* MixerListener.mixer_group_entities: group id -> fields of the group
    commands,                       \* <<kind, id, level>> handed to mixer.set_*_volume by the last step on those
    codec,                          \* the last conversion between volume and level, with its operands
    call,                           \* the set_volume_level call under way or last made: its arguments and position
    source_commands                 \* <<kind, source_id>> handed to mixer.set_*_source by the last select_source

vars == <<kind, use_optimistic_volume, config_volume_db_range,
          volume_db_range, volume_level,
          pending_volume, pending_raw_volume_level,
          pending_volume_rejected_count, is_volume_muted, raw_volume_level,
          pre_mute_volume, pre_mute_raw_volume, attr_volume_level,
          attr_is_volume_muted, use_zone_labels, sources_by_id,
          attr_available, attr_source, enabled_line_inputs, attr_source_list,
          device_name, sent, last_op, reports_since_issue,
          replaced_volume, round_trip, mixer_zone_entities,
          mixer_group_entities, commands, codec, call, source_commands>>

----------------------------------------------------------------------------
(* Bounds and program constants *)

\* 1.0 as a volume: volumes are counted in steps of 0.05 (volume_up/down)
VolUnits == 20

\* the 5% increment of volume_up / volume_down, in volume units
VolStep == 1

\* the mute sentinel level
MuteLevel == 62

\* a give-up threshold that is one response late
RejectLimit_OneLate == 3 + 1

\* rejected responses after which a pending command is given up
RejectLimit == 3

\* the largest ordinary (non-sentinel) integer level the device reports
MaxReportLevel == 5

\* configured volume_db_range values of the explored targets
DbRangeConfigs == {4}

None == <<>>

Some(x) == <<x>>

Val(o) == o[1]

Volumes == 0..VolUnits

\* the volumes the user asks for: 0%, 15%, 50%, 55%, 100%
IssueVolumes == {0, 3, 10, 11, 20}

\* the history counter reports_since_issue stops counting here
MaxCounted == 5

IntLevel(n) == <<"int", n>>

MuteToken == <<"mute">>

\* the levels the device channel delivers
ReportLevels == {IntLevel(n) : n \in (0..MaxReportLevel) \cup {MuteLevel}} \cup {MuteToken}

\* an enabled-inputs dict with no entry
NoInputs == <<>>

\* the catalogue at construction, and the catalogues source labels can leave
InitialSources == <<1, 9>>

Catalogues == {<<1, 9>>, <<1, 2, 9>>}

\* the source ids, enabled-inputs dicts and labels the device reports
SourceReports == {1, 5}

LineInputReports == {NoInputs, [id \in {1, 2} |-> id = 2]}

Labels == {"Bar"}

InitialLabel == "Lounge"

----------------------------------------------------------------------------
(* Pure helpers *)

Min(a, b) == IF a < b THEN a ELSE b

Max(a, b) == IF a > b THEN a ELSE b

\* Python round() of the rational n/d (n >= 0, d > 0): ties go to the even integer
Round(n, d) ==
    LET q == n \div d
        r == n % d
    IN  IF 2 * r < d THEN q
        ELSE IF 2 * r > d THEN q + 1
        ELSE IF q % 2 = 0 THEN q ELSE q + 1

\* variant: only the upper end is clamped
ClampDbRange_UpperOnly(x) == Min(61, x)

\* max(1, min(61, volume_db_range))
ClampDbRange(x) == Max(1, Min(61, x))

\* set_volume_level: HA volume -> device level, for a volume counted in
\* steps of 1/units
EncodeVolumeIn(units, volume, range) ==
    IF volume = 0 THEN range
    ELSE Max(0, Min(range, Round(range * (units - volume), units)))

\* the unclamped conversion of the hysteresis check
CurrentWouldBeIn(units, volume, range) ==
    IF volume = 0 THEN range
    ELSE Round(range * (units - volume), units)

\* variant: the level is read against the full range of the device, 61
DecodeLevelIn_FullRange(units, level_int, range) ==
    IF level_int >= range THEN 0
    ELSE units - ((level_int * units) \div (MuteLevel - 1))

\* device level -> HA volume counted in steps of 1/units; exact when range
\* divides level_int * units
DecodeLevelIn(units, level_int, range) ==
    IF level_int >= range THEN 0
    ELSE units - ((level_int * units) \div range)

\* the conversions for volumes counted in steps of 0.05
EncodeVolume(volume, range) == EncodeVolumeIn(VolUnits, volume, range)

CurrentWouldBe(volume, range) == CurrentWouldBeIn(VolUnits, volume, range)

DecodeLevel(level_int, range) == DecodeLevelIn(VolUnits, level_int, range)

\* level_int = 62 if level == "mute" else int(level)
LevelInt(level) == IF level[1] = "mute" THEN MuteLevel ELSE level[2]

----------------------------------------------------------------------------
(* The mutable fields of one target, as a record, and the handlers as      *)
(* functions from the record before the call to the record after it.       *)

Cur ==
    [volume_level |-> volume_level,
     pending_volume |-> pending_volume,
     pending_raw_volume_level |-> pending_raw_volume_level,
     pending_volume_rejected_count |-> pending_volume_rejected_count,
     is_volume_muted |-> is_volume_muted,
     raw_volume_level |-> raw_volume_level,
     pre_mute_volume |-> pre_mute_volume,
     pre_mute_raw_volume |-> pre_mute_raw_volume,
     attr_volume_level |-> attr_volume_level,
     attr_is_volume_muted |-> attr_is_volume_muted,
     attr_available |-> attr_available,
     attr_source |-> attr_source,
     enabled_line_inputs |-> enabled_line_inputs,
     attr_source_list |-> attr_source_list,
     device_name |-> device_name]

\* __init__: the fields before the initial volume is looked at.  MixerGroup
\* assigns the two _attr_ fields, MixerZone leaves them unset.
InitFields(k) ==
    [volume_level |-> None,
     pending_volume |-> None,
     pending_raw_volume_level |-> None,
     pending_volume_rejected_count |-> 0,
     is_volume_muted |-> FALSE,
     raw_volume_level |-> None,
     pre_mute_volume |-> None,
     pre_mute_raw_volume |-> None,
     attr_volume_level |-> None,
     attr_is_volume_muted |-> IF k = "group" THEN Some(FALSE) ELSE None,
     attr_available |-> None,
     attr_source |-> None,
     enabled_line_inputs |-> NoInputs,
     attr_source_list |-> <<>>,
     device_name |-> ""]

\* __init__: "Try to get initial volume level".  initial_volume is None or a
\* level.  MixerZone copies _volume_level to _attr_volume_level on both
\* branches, MixerGroup only on the unmuted branch.
InitTarget(k, initial_volume, range) ==
    LET s0 == InitFields(k) IN
    IF initial_volume = None THEN s0
    ELSE
      LET level_int == LevelInt(Val(initial_volume)) IN
      IF level_int >= MuteLevel
      THEN [s0 EXCEPT !.raw_volume_level = Some(level_int),
                      !.is_volume_muted = TRUE,
                      !.attr_is_volume_muted = Some(TRUE),
                      !.volume_level = Some(0),
                      !.attr_volume_level = IF k = "zone" THEN Some(0) ELSE @]
      ELSE [s0 EXCEPT !.raw_volume_level = Some(level_int),
                      !.is_volume_muted = FALSE,
                      !.attr_is_volume_muted = Some(FALSE),
                      !.volume_level = Some(DecodeLevel(level_int, range)),
                      !.attr_volume_level = Some(DecodeLevel(level_int, range))]

\* source_id in self._mixer.sources_by_id
InCatalogue(sources, source_id) ==
    \E i \in 1..Len(sources) : sources[i] = source_id

\* the name put in _attr_device_info (with the default empty name suffix)
DisplayName(k, name, labels) ==
    IF labels THEN name
    ELSE IF k = "zone" THEN "Zone 1" ELSE "Group 1"

\* _build_source_list
BuildSourceList(enabled_inputs, sources) ==
    LET Enabled(source_id) ==
          IF 1 <= source_id /\ source_id <= 8
          THEN IF source_id \in DOMAIN enabled_inputs
               THEN enabled_inputs[source_id] ELSE FALSE
          ELSE TRUE
    IN IF DOMAIN enabled_inputs = {} THEN sources
       ELSE SelectSeq(sources, Enabled)

\* __init__: the name, the source list and the initial source
InitEntity(s, k, name, labels, enabled_inputs, initial_source_id, sources) ==
    [s EXCEPT !.enabled_line_inputs = enabled_inputs,
              !.attr_source_list = BuildSourceList(enabled_inputs, sources),
              !.attr_source =
                 IF /\ initial_source_id # None
                    /\ Val(initial_source_id) # 0
                    /\ InCatalogue(sources, Val(initial_source_id))
                 THEN initial_source_id ELSE None,
              !.device_name = DisplayName(k, name, labels)]

\* "if self._pending_volume is not None and self._pending_raw_volume_level is not None"
HasPending(s) == s.pending_volume # None /\ s.pending_raw_volume_level # None

\* the branch maybe_update_volume_level_from_device takes for a level
ReportBranch(s, level) ==
    IF HasPending(s) /\ LevelInt(level) # Val(s.pending_raw_volume_level)
    THEN IF s.pending_volume_rejected_count + 1 >= RejectLimit
         THEN "giveup" ELSE "reject"
    ELSE IF s.pending_volume # None THEN "commit" ELSE "accept"

\* a staleness check that records the raw level before it rejects
StaleCheck_RecordsFirst(s, level) ==
    IF HasPending(s) /\ LevelInt(level) # Val(s.pending_raw_volume_level)
    THEN IF s.pending_volume_rejected_count + 1 >= RejectLimit
         THEN [s EXCEPT !.pending_volume = None,
                        !.pending_raw_volume_level = None,
                        !.pending_volume_rejected_count = 0]
         ELSE [s EXCEPT !.pending_volume_rejected_count = @ + 1,
                        !.raw_volume_level = Some(LevelInt(level))]
    ELSE s

\* variant: giving up clears the pending command but keeps the counter
StaleCheck_GiveUpKeepsCount(s, level) ==
    IF HasPending(s) /\ LevelInt(level) # Val(s.pending_raw_volume_level)
    THEN IF s.pending_volume_rejected_count + 1 >= RejectLimit
         THEN [s EXCEPT !.pending_volume = None,
                        !.pending_raw_volume_level = None,
                        !.pending_volume_rejected_count = @ + 1]
         ELSE [s EXCEPT !.pending_volume_rejected_count = @ + 1]
    ELSE s

\* the staleness check: the fields when the check returns or falls through
StaleCheck(s, level) ==
    IF HasPending(s) /\ LevelInt(level) # Val(s.pending_raw_volume_level)
    THEN IF s.pending_volume_rejected_count + 1 >= RejectLimit
         THEN [s EXCEPT !.pending_volume = None,
                        !.pending_raw_volume_level = None,
                        !.pending_volume_rejected_count = 0]
         ELSE [s EXCEPT !.pending_volume_rejected_count = @ + 1]
    ELSE s

\* variant: a mute report zeroes the confirmed volume, as __init__ does
AcceptMute_ZeroesVolume(s) ==
    [s EXCEPT !.is_volume_muted = TRUE,
              !.attr_is_volume_muted = Some(TRUE),
              !.raw_volume_level = Some(MuteLevel),
              !.volume_level = Some(0)]

\* "if level == 'mute'": the mute branch of an accepted response
AcceptMute(s) ==
    [s EXCEPT !.is_volume_muted = TRUE,
              !.attr_is_volume_muted = Some(TRUE),
              !.raw_volume_level = Some(MuteLevel)]

\* a commit that takes the decoded device value instead of the request
AcceptPending_CommitsDecoded(s, level_int, new_volume) ==
    [s EXCEPT !.volume_level = Some(new_volume),
              !.pending_volume = None,
              !.pending_raw_volume_level = None,
              !.pending_volume_rejected_count = 0,
              !.attr_volume_level = Some(new_volume)]

\* "if self._pending_volume is not None": commit the pending request, or
\* override it with the device's value
AcceptPending(s, level_int, new_volume) ==
    IF s.pending_raw_volume_level = Some(level_int)
    THEN [s EXCEPT !.volume_level = s.pending_volume,
                   !.pending_volume = None,
                   !.pending_raw_volume_level = None,
                   !.pending_volume_rejected_count = 0,
                   !.attr_volume_level = s.pending_volume]
    ELSE [s EXCEPT !.volume_level = Some(new_volume),
                   !.pending_volume = None,
                   !.pending_raw_volume_level = None,
                   !.pending_volume_rejected_count = 0,
                   !.attr_volume_level = Some(new_volume)]

\* an idle update without the hysteresis check
AcceptIdle_NoHysteresis(s, level_int, new_volume, range) ==
    [s EXCEPT !.volume_level = Some(new_volume),
              !.attr_volume_level = Some(new_volume)]

\* variant: an idle update never replaces a confirmed volume
AcceptIdle_KeepsConfirmed(s, level_int, new_volume, range) ==
    IF s.volume_level # None
    THEN [s EXCEPT !.attr_volume_level = s.volume_level]
    ELSE [s EXCEPT !.volume_level = Some(new_volume),
                   !.attr_volume_level = Some(new_volume)]

\* variant: an idle update moves the volume one step towards the device's
AcceptIdle_StepsToward(s, level_int, new_volume, range) ==
    IF s.volume_level # None /\ Val(s.volume_level) # new_volume
    THEN LET stepped == IF Val(s.volume_level) < new_volume
                        THEN Val(s.volume_level) + VolStep
                        ELSE Val(s.volume_level) - VolStep
         IN  [s EXCEPT !.volume_level = Some(stepped),
                       !.attr_volume_level = Some(stepped)]
    ELSE [s EXCEPT !.volume_level = Some(new_volume),
                   !.attr_volume_level = Some(new_volume)]

\* "No pending request": hysteresis against the current slider position
AcceptIdle(s, level_int, new_volume, range) ==
    IF s.volume_level # None
    THEN IF CurrentWouldBe(Val(s.volume_level), range) = level_int
         THEN [s EXCEPT !.attr_volume_level = s.volume_level]
         ELSE [s EXCEPT !.volume_level = Some(new_volume),
                        !.attr_volume_level = Some(new_volume)]
    ELSE [s EXCEPT !.volume_level = Some(new_volume),
                   !.attr_volume_level = Some(new_volume)]

\* "Response accepted - now modify state"
AcceptResponse(s, level, range) ==
    IF level = MuteToken
    THEN AcceptMute(s)
    ELSE
      LET level_int == LevelInt(level)
          new_volume == DecodeLevel(level_int, range)
          s1 == [s EXCEPT !.is_volume_muted = FALSE,
                          !.attr_is_volume_muted = Some(FALSE),
                          !.raw_volume_level = Some(level_int)]
      IN  IF s1.pending_volume # None
          THEN AcceptPending(s1, level_int, new_volume)
          ELSE AcceptIdle(s1, level_int, new_volume, range)

\* maybe_update_volume_level_from_device(level)
MaybeUpdateVolumeLevelFromDevice(s, level, range) ==
    IF ReportBranch(s, level) = "reject"
    THEN StaleCheck(s, level)
    ELSE AcceptResponse(StaleCheck(s, level), level, range)

\* a set_volume_level that shows the request whatever the optimistic setting
SetVolumeLevel_AlwaysShows(s, volume, range, optimistic) ==
    [s EXCEPT !.pending_volume = Some(volume),
              !.pending_raw_volume_level = Some(EncodeVolume(volume, range)),
              !.pending_volume_rejected_count = 0,
              !.attr_volume_level = Some(volume)]

\* a set_volume_level that keeps the rejection counter of the old command
SetVolumeLevel_KeepsCount(s, volume, range, optimistic) ==
    LET s1 == [s EXCEPT !.pending_volume = Some(volume),
                        !.pending_raw_volume_level = Some(EncodeVolume(volume, range))]
    IN  IF optimistic THEN [s1 EXCEPT !.attr_volume_level = Some(volume)] ELSE s1

\* variant: a request for the level that is already pending is dropped
SetVolumeLevel_DropsSameLevel(s, volume, range, optimistic) ==
    LET level == EncodeVolume(volume, range)
        s1 == [s EXCEPT !.pending_volume = Some(volume),
                        !.pending_raw_volume_level = Some(level),
                        !.pending_volume_rejected_count = 0]
    IN  IF s.pending_raw_volume_level = Some(level) THEN s
        ELSE IF optimistic THEN [s1 EXCEPT !.attr_volume_level = Some(volume)]
        ELSE s1

\* set_volume_level(volume): the fields afterwards
SetVolumeLevel(s, volume, range, optimistic) ==
    LET level == EncodeVolume(volume, range)
        s1 == [s EXCEPT !.pending_volume = Some(volume),
                        !.pending_raw_volume_level = Some(level),
                        !.pending_volume_rejected_count = 0]
    IN  IF optimistic THEN [s1 EXCEPT !.attr_volume_level = Some(volume)] ELSE s1

\* variant: a report that makes the target give up sends the command again
MaybeUpdateVolumeLevelFromDeviceSent_Reissues(s, level) ==
    IF ReportBranch(s, level) = "giveup"
    THEN <<Val(s.pending_raw_volume_level)>> ELSE <<>>

\* maybe_update_volume_level_from_device: the levels it hands to the mixer;
\* no branch of it calls the mixer
MaybeUpdateVolumeLevelFromDeviceSent(s, level) == <<>>

\* set_volume_level(volume): the level handed to mixer.set_zone_volume
SetVolumeLevelSent(volume, range) == <<EncodeVolume(volume, range)>>

\* variant: volume_up without the upper clamp
StepUpVolume_NoClamp(s) == Val(s.volume_level) + VolStep

\* volume_up / volume_down: the volume they request
StepUpVolume(s) == Min(VolUnits, Val(s.volume_level) + VolStep)

StepDownVolume(s) == Max(0, Val(s.volume_level) - VolStep)

\* variant: the restore level never uses the saved pre-mute level
MuteVolumeLevel_IgnoresSaved(s, mute, range) ==
    IF mute THEN MuteLevel
    ELSE IF s.volume_level # None /\ Val(s.volume_level) > 0
         THEN Round(range * (VolUnits - Val(s.volume_level)), VolUnits)
    ELSE range \div 2

\* mute_volume(mute): the level it hands to mixer.set_zone_volume
MuteVolumeLevel(s, mute, range) ==
    IF mute THEN MuteLevel
    ELSE IF s.pre_mute_raw_volume # None THEN Val(s.pre_mute_raw_volume)
    ELSE IF s.volume_level # None /\ Val(s.volume_level) > 0
         THEN Round(range * (VolUnits - Val(s.volume_level)), VolUnits)
    ELSE range \div 2

\* variant: muting sets the mute flag at once
MuteVolume_SetsMuted(s, mute) ==
    IF mute
    THEN [s EXCEPT !.pre_mute_volume = s.volume_level,
                   !.pre_mute_raw_volume = s.raw_volume_level,
                   !.is_volume_muted = TRUE]
    ELSE IF s.pre_mute_raw_volume # None
         THEN [s EXCEPT !.pre_mute_volume = None,
                        !.pre_mute_raw_volume = None]
         ELSE s

\* variant: unmuting records the restore as a pending command
MuteVolume_UnmuteIssues(s, mute) ==
    IF mute
    THEN [s EXCEPT !.pre_mute_volume = s.volume_level,
                   !.pre_mute_raw_volume = s.raw_volume_level]
    ELSE IF s.pre_mute_raw_volume # None
         THEN [s EXCEPT !.pre_mute_volume = None,
                        !.pre_mute_raw_volume = None,
                        !.pending_volume = Some(0),
                        !.pending_raw_volume_level = s.pre_mute_raw_volume,
                        !.pending_volume_rejected_count = 0]
         ELSE s

\* variant: the mute command is recorded as the pending command
MuteVolume_MutePends(s, mute) ==
    IF mute
    THEN [s EXCEPT !.pre_mute_volume = s.volume_level,
                   !.pre_mute_raw_volume = s.raw_volume_level,
                   !.pending_volume = Some(0),
                   !.pending_raw_volume_level = Some(MuteLevel)]
    ELSE IF s.pre_mute_raw_volume # None
         THEN [s EXCEPT !.pre_mute_volume = None,
                        !.pre_mute_raw_volume = None]
         ELSE s

\* mute_volume(mute): the fields afterwards
MuteVolume(s, mute) ==
    IF mute
    THEN [s EXCEPT !.pre_mute_volume = s.volume_level,
                   !.pre_mute_raw_volume = s.raw_volume_level]
    ELSE IF s.pre_mute_raw_volume # None
         THEN [s EXCEPT !.pre_mute_volume = None,
                        !.pre_mute_raw_volume = None]
         ELSE s

\* variant: losing the connection drops the pending command
SetAvailable_DropsPending(s, available) ==
    [s EXCEPT !.attr_available = Some(available),
              !.pending_volume = IF available THEN @ ELSE None,
              !.pending_raw_volume_level = IF available THEN @ ELSE None]

\* set_available(available)
SetAvailable(s, available) == [s EXCEPT !.attr_available = Some(available)]

\* set_name(name)
SetName(s, k, name, labels) ==
    [s EXCEPT !.device_name = DisplayName(k, name, labels)]

\* set_source(source_id)
SetSource(s, source_id, sources) ==
    IF InCatalogue(sources, source_id)
    THEN [s EXCEPT !.attr_source = Some(source_id)]
    ELSE s

\* the name of a source of the catalogue
SourceName(source_id) == <<"Source", source_id>>

\* mixer.sources_by_name.get(source): the id of the source that bears the name
SourcesByName(sources, source) ==
    IF \E i \in 1..Len(sources) : SourceName(sources[i]) = source
    THEN Some(sources[CHOOSE i \in 1..Len(sources) : SourceName(sources[i]) = source])
    ELSE None

\* variant: select_source shows the selected source at once
SelectSource_ShowsSource(s, source, sources) ==
    IF SourcesByName(sources, source) # None
    THEN [s EXCEPT !.attr_source = SourcesByName(sources, source)]
    ELSE s

\* select_source(source): the fields afterwards; it writes none
SelectSource(s, source, sources) == s

\* select_source(source): the commands handed to mixer.set_zone_source
\* (mixer.set_group_source for a group)
SelectSourceSent(k, source, sources) ==
    IF SourcesByName(sources, source) # None
    THEN <<<<k, Val(SourcesByName(sources, source))>>>>
    ELSE <<>>

\* update_source_list()
UpdateSourceList(s, sources) ==
    [s EXCEPT !.attr_source_list = BuildSourceList(s.enabled_line_inputs, sources)]

\* update_enabled_inputs(enabled_inputs)
UpdateEnabledInputs(s, enabled_inputs, sources) ==
    [s EXCEPT !.enabled_line_inputs = enabled_inputs,
              !.attr_source_list = BuildSourceList(enabled_inputs, sources)]

\* the volume_level / is_volume_muted properties the display layer reads
DisplayedVolume(s) == s.attr_volume_level

DisplayedMuted(s) == IF s.attr_is_volume_muted = None THEN FALSE ELSE Val(s.attr_is_volume_muted)

----------------------------------------------------------------------------
(* The state machine *)

\* history after a report: the count of reports the pending command has seen
\* (0 again once nothing is pending)
ReportHistory(s) ==
    reports_since_issue' =
        IF s.pending_volume = None THEN 0
        ELSE Min(MaxCounted, reports_since_issue + 1)

\* history after set_volume_level: a new command
IssueHistory == reports_since_issue' = 0

\* the fields of the next state are those of the record s
Becomes(s) ==
    /\ volume_level' = s.volume_level
    /\ pending_volume' = s.pending_volume
    /\ pending_raw_volume_level' = s.pending_raw_volume_level
    /\ pending_volume_rejected_count' = s.pending_volume_rejected_count
    /\ is_volume_muted' = s.is_volume_muted
    /\ raw_volume_level' = s.raw_volume_level
    /\ pre_mute_volume' = s.pre_mute_volume
    /\ pre_mute_raw_volume' = s.pre_mute_raw_volume
    /\ attr_volume_level' = s.attr_volume_level
    /\ attr_is_volume_muted' = s.attr_is_volume_muted
    /\ attr_available' = s.attr_available
    /\ attr_source' = s.attr_source
    /\ enabled_line_inputs' = s.enabled_line_inputs
    /\ attr_source_list' = s.attr_source_list
    /\ device_name' = s.device_name

\* the object starts with the fields of the record s
Starts(s) ==
    /\ volume_level = s.volume_level
    /\ pending_volume = s.pending_volume
    /\ pending_raw_volume_level = s.pending_raw_volume_level
    /\ pending_volume_rejected_count = s.pending_volume_rejected_count
    /\ is_volume_muted = s.is_volume_muted
    /\ raw_volume_level = s.raw_volume_level
    /\ pre_mute_volume = s.pre_mute_volume
    /\ pre_mute_raw_volume = s.pre_mute_raw_volume
    /\ attr_volume_level = s.attr_volume_level
    /\ attr_is_volume_muted = s.attr_is_volume_muted
    /\ attr_available = s.attr_available
    /\ attr_source = s.attr_source
    /\ enabled_line_inputs = s.enabled_line_inputs
    /\ attr_source_list = s.attr_source_list
    /\ device_name = s.device_name

\* the constructor arguments
Construction == <<kind, use_optimistic_volume, config_volume_db_range,
                  volume_db_range, use_zone_labels>>

\* the targets registered with a listener, and the commands they sent
Others == <<mixer_zone_entities, mixer_group_entities, commands>>

\* what the volume and mute handlers of a target never write: the constructor
\* arguments, the mixer's catalogue and the other targets; nor do they keep
\* the operands of a conversion
Config == <<Construction, sources_by_id, Others, codec, call, source_commands>>

\* a target on its own: no listener with further targets
Alone ==
    /\ mixer_zone_entities = <<>>
    /\ mixer_group_entities = <<>>
    /\ commands = <<>>
    /\ codec = None
    /\ call = None
    /\ source_commands = <<>>

Init ==
    /\ kind \in {"zone", "group"}
    /\ use_optimistic_volume \in BOOLEAN
    /\ config_volume_db_range \in DbRangeConfigs
    /\ volume_db_range = ClampDbRange(config_volume_db_range)
    /\ use_zone_labels = TRUE
    /\ sources_by_id = InitialSources
    /\ \E initial_volume \in {None} \cup {Some(l) : l \in ReportLevels} :
         Starts(InitEntity(InitTarget(kind, initial_volume, volume_db_range),
                           kind, InitialLabel, use_zone_labels, NoInputs,
                           None, sources_by_id))
    /\ sent = <<>>
    /\ last_op = "init"
    /\ reports_since_issue = 0
    /\ replaced_volume = None
    /\ round_trip = None
    /\ Alone

\* MixerListener.zone_volume_level_received / group_volume_level_received
ReportStep(level) ==
    /\ last_op' = ReportBranch(Cur, level)
    /\ sent' = MaybeUpdateVolumeLevelFromDeviceSent(Cur, level)
    /\ Becomes(MaybeUpdateVolumeLevelFromDevice(Cur, level, volume_db_range))
    /\ ReportHistory(MaybeUpdateVolumeLevelFromDevice(Cur, level, volume_db_range))
    /\ UNCHANGED Config

OnReport(level) == ReportStep(level) /\ UNCHANGED <<replaced_volume, round_trip>>

\* set_volume_level(volume)
IssueStep(volume) ==
    /\ last_op' = "issue"
    /\ sent' = SetVolumeLevelSent(volume, volume_db_range)
    /\ Becomes(SetVolumeLevel(Cur, volume, volume_db_range, use_optimistic_volume))
    /\ IssueHistory
    /\ UNCHANGED Config

Issue(volume) == IssueStep(volume) /\ UNCHANGED <<replaced_volume, round_trip>>

\* volume_up()
VolumeUp ==
    /\ last_op' = "volume_up"
    /\ IF volume_level # None
       THEN /\ Becomes(SetVolumeLevel(Cur, StepUpVolume(Cur), volume_db_range,
                                      use_optimistic_volume))
            /\ sent' = SetVolumeLevelSent(StepUpVolume(Cur), volume_db_range)
            /\ IssueHistory
       ELSE /\ Becomes(Cur)
            /\ sent' = <<>>
            /\ UNCHANGED reports_since_issue
    /\ UNCHANGED <<Config, replaced_volume, round_trip>>

\* volume_down()
VolumeDown ==
    /\ last_op' = "volume_down"
    /\ IF volume_level # None
       THEN /\ Becomes(SetVolumeLevel(Cur, StepDownVolume(Cur), volume_db_range,
                                      use_optimistic_volume))
            /\ sent' = SetVolumeLevelSent(StepDownVolume(Cur), volume_db_range)
            /\ IssueHistory
       ELSE /\ Becomes(Cur)
            /\ sent' = <<>>
            /\ UNCHANGED reports_since_issue
    /\ UNCHANGED <<Config, replaced_volume, round_trip>>

\* mute_volume(True)
MuteStep ==
    /\ Becomes(MuteVolume(Cur, TRUE))
    /\ sent' = <<MuteVolumeLevel(Cur, TRUE, volume_db_range)>>
    /\ last_op' = "mute"
    /\ UNCHANGED <<Config, reports_since_issue>>

Mute == MuteStep /\ UNCHANGED <<replaced_volume, round_trip>>

\* mute_volume(False)
UnmuteStep ==
    /\ Becomes(MuteVolume(Cur, FALSE))
    /\ sent' = <<MuteVolumeLevel(Cur, FALSE, volume_db_range)>>
    /\ last_op' = "unmute"
    /\ UNCHANGED <<Config, reports_since_issue>>

Unmute == UnmuteStep /\ UNCHANGED <<replaced_volume, round_trip>>

Next ==
    \/ \E level \in ReportLevels : OnReport(level)
    \/ \E volume \in IssueVolumes : Issue(volume)
    \/ VolumeUp
    \/ VolumeDown
    \/ Mute
    \/ Unmute

Spec == Init /\ [][Next]_vars

----------------------------------------------------------------------------
(* Command replacement: the same handlers, with the history variable       *)
(* replaced_volume recording the pending volume that the last              *)
(* set_volume_level overwrote, for as long as its command stays pending.   *)

IssueReplacing(volume) ==
    /\ IssueStep(volume)
    /\ replaced_volume' = pending_volume
    /\ UNCHANGED round_trip

OnReportReplacing(level) ==
    /\ ReportStep(level)
    /\ replaced_volume' = IF pending_volume' = None THEN None ELSE replaced_volume
    /\ UNCHANGED round_trip

NextReplace ==
    \/ \E level \in ReportLevels : OnReportReplacing(level)
    \/ \E volume \in IssueVolumes : IssueReplacing(volume)

SpecReplace == Init /\ [][NextReplace]_vars

----------------------------------------------------------------------------
(* Mute/unmute round trip: the same handlers, and the sequence             *)
(* mute_volume(True); report "mute"; mute_volume(False); report of the     *)
(* pre-mute level, started from any state with nothing pending, the target *)
(* unmuted and a confirmed volume and a raw level below 62.  The history   *)
(* variable round_trip holds the step reached and the volume and raw level *)
(* the trip started from.                                                  *)

\* where a round trip may start
RoundTripStart ==
    /\ round_trip = None
    /\ pending_volume = None
    /\ ~is_volume_muted
    /\ volume_level # None
    /\ raw_volume_level # None
    /\ Val(raw_volume_level) \in 0..(MuteLevel - 1)

RoundTripMute ==
    /\ RoundTripStart
    /\ MuteStep
    /\ round_trip' = Some([step |-> 1, volume |-> Val(volume_level),
                                      level |-> Val(raw_volume_level)])
    /\ UNCHANGED replaced_volume

RoundTripMuteReport ==
    /\ round_trip # None
    /\ Val(round_trip).step = 1
    /\ ReportStep(MuteToken)
    /\ round_trip' = Some([Val(round_trip) EXCEPT !.step = 2])
    /\ UNCHANGED replaced_volume

RoundTripUnmute ==
    /\ round_trip # None
    /\ Val(round_trip).step = 2
    /\ UnmuteStep
    /\ round_trip' = Some([Val(round_trip) EXCEPT !.step = 3])
    /\ UNCHANGED replaced_volume

RoundTripLevelReport ==
    /\ round_trip # None
    /\ Val(round_trip).step = 3
    /\ ReportStep(IntLevel(Val(round_trip).level))
    /\ round_trip' = Some([Val(round_trip) EXCEPT !.step = 4])
    /\ UNCHANGED replaced_volume

NextRoundTrip ==
    \/ round_trip = None /\ Next
    \/ RoundTripMute
    \/ RoundTripMuteReport
    \/ RoundTripUnmute
    \/ RoundTripLevelReport

SpecRoundTrip == Init /\ [][NextRoundTrip]_vars

----------------------------------------------------------------------------
(* Reports outside 0..62: the same handlers, with the device also          *)
(* delivering a negative level and a level above the mute sentinel.        *)

OutOfDomainLevels == {IntLevel(0 - 1), IntLevel(MuteLevel + 1)}

NextOutOfDomain ==
    \/ \E level \in ReportLevels \cup OutOfDomainLevels : OnReport(level)
    \/ \E volume \in IssueVolumes : Issue(volume)
    \/ Mute
    \/ Unmute

SpecOutOfDomain == Init /\ [][NextOutOfDomain]_vars

----------------------------------------------------------------------------
(* Connectivity, source, label and line-input events of MixerListener,     *)
(* together with the volume and mute handlers driven by a few inputs.      *)

EventReportLevels == {IntLevel(2), MuteToken}

EventIssueVolumes == {11}

InitEvents ==
    /\ kind \in {"zone", "group"}
    /\ use_optimistic_volume = TRUE
    /\ config_volume_db_range \in DbRangeConfigs
    /\ volume_db_range = ClampDbRange(config_volume_db_range)
    /\ use_zone_labels \in BOOLEAN
    /\ sources_by_id = InitialSources
    /\ \E initial_volume \in {None, Some(IntLevel(2))} :
         Starts(InitEntity(InitTarget(kind, initial_volume, volume_db_range),
                           kind, InitialLabel, use_zone_labels, NoInputs,
                           Some(9), sources_by_id))
    /\ sent = <<>>
    /\ last_op = "init"
    /\ reports_since_issue = 0
    /\ replaced_volume = None
    /\ round_trip = None
    /\ Alone

\* what an event leaves alone besides the fields of the target
EventFrame ==
    UNCHANGED <<Construction, sent, last_op, reports_since_issue,
                replaced_volume, round_trip, Others, codec, call,
                source_commands>>

\* MixerListener.connected
Connected ==
    /\ Becomes(SetAvailable(Cur, TRUE))
    /\ UNCHANGED sources_by_id
    /\ EventFrame

\* MixerListener.disconnected
Disconnected ==
    /\ Becomes(SetAvailable(Cur, FALSE))
    /\ UNCHANGED sources_by_id
    /\ EventFrame

\* MixerListener.zone_source_received / group_source_received
SourceReceived(source_id) ==
    /\ Becomes(SetSource(Cur, source_id, sources_by_id))
    /\ UNCHANGED sources_by_id
    /\ EventFrame

\* MixerListener.zone_label_received / group_label_received
LabelReceived(label) ==
    /\ Becomes(SetName(Cur, kind, label, use_zone_labels))
    /\ UNCHANGED sources_by_id
    /\ EventFrame

\* MixerListener.zone_line_inputs_received / group_line_inputs_received
LineInputsReceived(enabled_inputs) ==
    /\ Becomes(UpdateEnabledInputs(Cur, enabled_inputs, sources_by_id))
    /\ UNCHANGED sources_by_id
    /\ EventFrame

\* MixerListener.source_label_received, after the mixer updated its catalogue
SourceLabelReceived(sources) ==
    /\ sources_by_id' = sources
    /\ Becomes(UpdateSourceList(Cur, sources))
    /\ EventFrame

NextEvents ==
    \/ \E level \in EventReportLevels : OnReport(level)
    \/ \E volume \in EventIssueVolumes : Issue(volume)
    \/ VolumeUp
    \/ VolumeDown
    \/ Mute
    \/ Unmute
    \/ Connected
    \/ Disconnected
    \/ \E source_id \in SourceReports : SourceReceived(source_id)
    \/ \E label \in Labels : LabelReceived(label)
    \/ \E enabled_inputs \in LineInputReports : LineInputsReceived(enabled_inputs)
    \/ \E sources \in Catalogues : SourceLabelReceived(sources)

SpecEvents == InitEvents /\ [][NextEvents]_vars

----------------------------------------------------------------------------
(* Selecting a source: select_source calls next to the device's source     *)
(* reports and catalogue updates.                                          *)

\* the names select_source is called with: 5 names no source of a catalogue
SelectNames == {SourceName(source_id) : source_id \in {1, 2, 5, 9}}

\* select_source(source)
SelectSourceCalled(source) ==
    /\ Becomes(SelectSource(Cur, source, sources_by_id))
    /\ source_commands' = SelectSourceSent(kind, source, sources_by_id)
    /\ last_op' = "select_source"
    /\ UNCHANGED <<Construction, sources_by_id, sent, reports_since_issue,
                   replaced_volume, round_trip, Others, codec, call>>

NextSource ==
    \/ \E source \in SelectNames : SelectSourceCalled(source)
    \/ \E source_id \in SourceReports : SourceReceived(source_id)
    \/ \E enabled_inputs \in LineInputReports : LineInputsReceived(enabled_inputs)
    \/ \E sources \in Catalogues : SourceLabelReceived(sources)

SpecSource == InitEvents /\ [][NextSource]_vars

----------------------------------------------------------------------------
(* Several targets behind one MixerListener: two zones and a group that    *)
(* shares its id with a zone, built by async_setup_entry with the same     *)
(* options.  The device also reports for ids that have no target.          *)

ZoneIds == {1, 2}

GroupIds == {1}

ReportedIds == {1, 2, 3}

ListenerReportLevels == {IntLevel(2)}

ListenerIssueVolumes == {11}

\* the fields of the single target of the other specifications
Fields ==
    <<volume_level, pending_volume, pending_raw_volume_level,
      pending_volume_rejected_count, is_volume_muted, raw_volume_level,
      pre_mute_volume, pre_mute_raw_volume, attr_volume_level,
      attr_is_volume_muted, attr_available, attr_source, enabled_line_inputs,
      attr_source_list, device_name>>

\* MixerZone(...) / MixerGroup(...) as async_setup_entry constructs them
NewTarget(k, initial_volume) ==
    InitEntity(InitTarget(k, initial_volume, volume_db_range), k,
               InitialLabel, use_zone_labels, NoInputs, None, sources_by_id)

\* the two dicts of the listener
Listener ==
    [zones |-> mixer_zone_entities, groups |-> mixer_group_entities]

\* variant: a zone report is also given to the group with the same id
ZoneVolumeLevelReceived_AlsoGroup(l, zone_id, level, range) ==
    LET z == IF zone_id \in DOMAIN l.zones
             THEN [l EXCEPT !.zones[zone_id] =
                     MaybeUpdateVolumeLevelFromDevice(@, level, range)]
             ELSE l
    IN IF zone_id \in DOMAIN l.groups
       THEN [z EXCEPT !.groups[zone_id] =
               MaybeUpdateVolumeLevelFromDevice(@, level, range)]
       ELSE z

\* MixerListener.zone_volume_level_received
ZoneVolumeLevelReceived(l, zone_id, level, range) ==
    IF zone_id \in DOMAIN l.zones
    THEN [l EXCEPT !.zones[zone_id] =
            MaybeUpdateVolumeLevelFromDevice(@, level, range)]
    ELSE l

\* MixerListener.group_volume_level_received
GroupVolumeLevelReceived(l, group_id, level, range) ==
    IF group_id \in DOMAIN l.groups
    THEN [l EXCEPT !.groups[group_id] =
            MaybeUpdateVolumeLevelFromDevice(@, level, range)]
    ELSE l

\* variant: only the zones are told about the connection
SetAllAvailable_ZonesOnly(l, available) ==
    [l EXCEPT !.zones = [zone_id \in DOMAIN l.zones |->
                           SetAvailable(l.zones[zone_id], available)]]

\* MixerListener.connected / disconnected: set_available on every zone and
\* every group
SetAllAvailable(l, available) ==
    [zones |-> [zone_id \in DOMAIN l.zones |->
                  SetAvailable(l.zones[zone_id], available)],
     groups |-> [group_id \in DOMAIN l.groups |->
                   SetAvailable(l.groups[group_id], available)]]

ListenerBecomes(l) ==
    /\ mixer_zone_entities' = l.zones
    /\ mixer_group_entities' = l.groups

InitListener ==
    /\ kind = "zone"
    /\ use_optimistic_volume = TRUE
    /\ config_volume_db_range \in DbRangeConfigs
    /\ volume_db_range = ClampDbRange(config_volume_db_range)
    /\ use_zone_labels = TRUE
    /\ sources_by_id = InitialSources
    /\ Starts(NewTarget(kind, None))
    /\ sent = <<>>
    /\ last_op = "init"
    /\ reports_since_issue = 0
    /\ replaced_volume = None
    /\ round_trip = None
    /\ mixer_zone_entities = [zone_id \in ZoneIds |-> NewTarget("zone", None)]
    /\ mixer_group_entities = [group_id \in GroupIds |-> NewTarget("group", None)]
    /\ commands = <<>>
    /\ codec = None
    /\ call = None
    /\ source_commands = <<>>

\* what a step on the listener's targets leaves alone
ListenerFrame ==
    UNCHANGED <<Construction, sources_by_id, Fields, sent,
                reports_since_issue, replaced_volume, round_trip, codec,
                call, source_commands>>

\* MixerListener.connected
OnConnected ==
    /\ last_op' = "connected"
    /\ commands' = <<>>
    /\ ListenerBecomes(SetAllAvailable(Listener, TRUE))
    /\ ListenerFrame

\* MixerListener.disconnected
OnDisconnected ==
    /\ last_op' = "disconnected"
    /\ commands' = <<>>
    /\ ListenerBecomes(SetAllAvailable(Listener, FALSE))
    /\ ListenerFrame

OnZoneReport(zone_id, level) ==
    /\ last_op' = "zone_report"
    /\ commands' = <<>>
    /\ ListenerBecomes(ZoneVolumeLevelReceived(Listener, zone_id, level,
                                               volume_db_range))
    /\ ListenerFrame

OnGroupReport(group_id, level) ==
    /\ last_op' = "group_report"
    /\ commands' = <<>>
    /\ ListenerBecomes(GroupVolumeLevelReceived(Listener, group_id, level,
                                                volume_db_range))
    /\ ListenerFrame

\* set_volume_level(volume) on the zone zone_id
ZoneIssue(zone_id, volume) ==
    /\ last_op' = "zone_issue"
    /\ commands' = <<<<"zone", zone_id,
                       SetVolumeLevelSent(volume, volume_db_range)[1]>>>>
    /\ ListenerBecomes([Listener EXCEPT !.zones[zone_id] =
         SetVolumeLevel(@, volume, volume_db_range, use_optimistic_volume)])
    /\ ListenerFrame

\* set_volume_level(volume) on the group group_id
GroupIssue(group_id, volume) ==
    /\ last_op' = "group_issue"
    /\ commands' = <<<<"group", group_id,
                       SetVolumeLevelSent(volume, volume_db_range)[1]>>>>
    /\ ListenerBecomes([Listener EXCEPT !.groups[group_id] =
         SetVolumeLevel(@, volume, volume_db_range, use_optimistic_volume)])
    /\ ListenerFrame

\* mute_volume(mute) on the zone zone_id
ZoneMute(zone_id, mute) ==
    /\ last_op' = "zone_mute"
    /\ commands' = <<<<"zone", zone_id,
                       MuteVolumeLevel(mixer_zone_entities[zone_id], mute,
                                       volume_db_range)>>>>
    /\ ListenerBecomes([Listener EXCEPT !.zones[zone_id] = MuteVolume(@, mute)])
    /\ ListenerFrame

\* mute_volume(mute) on the group group_id
GroupMute(group_id, mute) ==
    /\ last_op' = "group_mute"
    /\ commands' = <<<<"group", group_id,
                       MuteVolumeLevel(mixer_group_entities[group_id], mute,
                                       volume_db_range)>>>>
    /\ ListenerBecomes([Listener EXCEPT !.groups[group_id] = MuteVolume(@, mute)])
    /\ ListenerFrame

NextListener ==
    \/ OnConnected
    \/ OnDisconnected
    \/ \E zone_id \in ReportedIds, level \in ListenerReportLevels :
         OnZoneReport(zone_id, level)
    \/ \E group_id \in ReportedIds, level \in ListenerReportLevels :
         OnGroupReport(group_id, level)
    \/ \E zone_id \in ZoneIds, volume \in ListenerIssueVolumes :
         ZoneIssue(zone_id, volume)
    \/ \E group_id \in GroupIds, volume \in ListenerIssueVolumes :
         GroupIssue(group_id, volume)
    \/ \E zone_id \in ZoneIds : ZoneMute(zone_id, TRUE)
    \/ \E group_id \in GroupIds : GroupMute(group_id, TRUE)

SpecListener == InitListener /\ [][NextListener]_vars

----------------------------------------------------------------------------
(* A zone and a group side by side: constructed from the same initial      *)
(* level and given the same calls.                                         *)

PairReportLevels == {IntLevel(1), IntLevel(2), IntLevel(MuteLevel), MuteToken}

PairIssueVolumes == {10, 11}

\* the zone and the group of the pair
PairZone == mixer_zone_entities[1]

PairGroup == mixer_group_entities[1]

\* volume_up() / volume_down(): the fields afterwards
VolumeStep(s, up) ==
    IF s.volume_level # None
    THEN SetVolumeLevel(s, IF up THEN StepUpVolume(s) ELSE StepDownVolume(s),
                        volume_db_range, use_optimistic_volume)
    ELSE s

\* volume_up() / volume_down(): the levels handed to the mixer
VolumeStepSent(s, up) ==
    IF s.volume_level # None
    THEN SetVolumeLevelSent(IF up THEN StepUpVolume(s) ELSE StepDownVolume(s),
                            volume_db_range)
    ELSE <<>>

InitPair ==
    /\ kind = "zone"
    /\ use_optimistic_volume \in BOOLEAN
    /\ config_volume_db_range \in DbRangeConfigs
    /\ volume_db_range = ClampDbRange(config_volume_db_range)
    /\ use_zone_labels = TRUE
    /\ sources_by_id = InitialSources
    /\ Starts(NewTarget(kind, None))
    /\ sent = <<>>
    /\ last_op = "init"
    /\ reports_since_issue = 0
    /\ replaced_volume = None
    /\ round_trip = None
    /\ \E initial_volume \in {None} \cup {Some(l) : l \in PairReportLevels} :
         /\ mixer_zone_entities = [zone_id \in {1} |-> NewTarget("zone", initial_volume)]
         /\ mixer_group_entities = [group_id \in {1} |-> NewTarget("group", initial_volume)]
    /\ commands = <<>>
    /\ codec = None
    /\ call = None
    /\ source_commands = <<>>

\* the zone and the group after a call, and the levels each handed to the mixer
PairBecomes(zone, group, zone_sent, group_sent) ==
    /\ mixer_zone_entities' = [mixer_zone_entities EXCEPT ![1] = zone]
    /\ mixer_group_entities' = [mixer_group_entities EXCEPT ![1] = group]
    /\ commands' = <<zone_sent, group_sent>>
    /\ ListenerFrame

\* the same report for both
PairReport(level) ==
    /\ last_op' = "report"
    /\ PairBecomes(MaybeUpdateVolumeLevelFromDevice(PairZone, level, volume_db_range),
                   MaybeUpdateVolumeLevelFromDevice(PairGroup, level, volume_db_range),
                   <<>>, <<>>)

\* set_volume_level(volume) on both
PairIssue(volume) ==
    /\ last_op' = "issue"
    /\ PairBecomes(SetVolumeLevel(PairZone, volume, volume_db_range,
                                  use_optimistic_volume),
                   SetVolumeLevel(PairGroup, volume, volume_db_range,
                                  use_optimistic_volume),
                   SetVolumeLevelSent(volume, volume_db_range),
                   SetVolumeLevelSent(volume, volume_db_range))

\* volume_up() or volume_down() on both
PairStep(up) ==
    /\ last_op' = IF up THEN "volume_up" ELSE "volume_down"
    /\ PairBecomes(VolumeStep(PairZone, up), VolumeStep(PairGroup, up),
                   VolumeStepSent(PairZone, up), VolumeStepSent(PairGroup, up))

\* mute_volume(mute) on both
PairMute(mute) ==
    /\ last_op' = IF mute THEN "mute" ELSE "unmute"
    /\ PairBecomes(MuteVolume(PairZone, mute), MuteVolume(PairGroup, mute),
                   <<MuteVolumeLevel(PairZone, mute, volume_db_range)>>,
                   <<MuteVolumeLevel(PairGroup, mute, volume_db_range)>>)

NextPair ==
    \/ \E level \in PairReportLevels : PairReport(level)
    \/ \E volume \in PairIssueVolumes : PairIssue(volume)
    \/ \E up \in BOOLEAN : PairStep(up)
    \/ \E mute \in BOOLEAN : PairMute(mute)

SpecPair == InitPair /\ [][NextPair]_vars

----------------------------------------------------------------------------
(* set_volume_level statement by statement.  The device may answer a       *)
(* command as soon as it has been handed to the mixer, even before the     *)
(* call has run its remaining statements; other reports are handled        *)
(* between calls.                                                          *)

OrderIssueVolumes == {3, 10}

OrderReportLevels == {IntLevel(2), IntLevel(3)}

\* variant: the command is handed to the mixer before the request is stored
SetVolumeLevelOrder_SendsFirst == <<"send", "record", "show">>

\* the statements of set_volume_level after the conversion: store the
\* request as pending, show it, hand the command to the mixer
SetVolumeLevelOrder == <<"record", "show", "send">>

\* no call is under way
Returned ==
    IF call = None THEN TRUE ELSE Val(call).at > Len(SetVolumeLevelOrder)

\* one statement of set_volume_level, on the fields s
Statement(s, statement, volume, level, optimistic) ==
    IF statement = "record"
    THEN [s EXCEPT !.pending_volume = Some(volume),
                   !.pending_raw_volume_level = Some(level),
                   !.pending_volume_rejected_count = 0]
    ELSE IF statement = "show" /\ optimistic
    THEN [s EXCEPT !.attr_volume_level = Some(volume)]
    ELSE s

InitOrder ==
    /\ kind \in {"zone", "group"}
    /\ use_optimistic_volume \in BOOLEAN
    /\ config_volume_db_range \in DbRangeConfigs
    /\ volume_db_range = ClampDbRange(config_volume_db_range)
    /\ use_zone_labels = TRUE
    /\ sources_by_id = InitialSources
    /\ Starts(NewTarget(kind, None))
    /\ sent = <<>>
    /\ last_op = "init"
    /\ reports_since_issue = 0
    /\ replaced_volume = None
    /\ round_trip = None
    /\ Alone

\* what a step of this specification leaves alone
OrderFrame ==
    UNCHANGED <<Construction, sources_by_id, Others, codec, sent,
                reports_since_issue, replaced_volume, round_trip,
                source_commands>>

\* set_volume_level(volume) is entered and converts the volume
IssueCalled(volume) ==
    /\ Returned
    /\ last_op' = "called"
    /\ call' = Some([volume |-> volume,
                     level |-> EncodeVolume(volume, volume_db_range),
                     at |-> 1, recorded |-> FALSE, handed |-> <<>>,
                     answered |-> FALSE])
    /\ Becomes(Cur)
    /\ OrderFrame

\* the call runs its next statement
IssueStatement ==
    /\ ~Returned
    /\ LET c == Val(call)
           statement == SetVolumeLevelOrder[c.at]
       IN  /\ last_op' = statement
           /\ Becomes(Statement(Cur, statement, c.volume, c.level,
                                use_optimistic_volume))
           /\ call' = Some([c EXCEPT
                  !.at = @ + 1,
                  !.recorded = @ \/ statement = "record",
                  !.handed = IF statement = "send" THEN Append(@, c.level) ELSE @])
    /\ OrderFrame

\* the device confirms the command it was handed
DeviceAnswers ==
    /\ call # None
    /\ Val(call).handed # <<>>
    /\ ~Val(call).answered
    /\ last_op' = "answer"
    /\ Becomes(MaybeUpdateVolumeLevelFromDevice(Cur, IntLevel(Val(call).handed[1]),
                                                volume_db_range))
    /\ call' = Some([Val(call) EXCEPT !.answered = TRUE])
    /\ OrderFrame

\* a report that answers no command of the call
OtherReport(level) ==
    /\ Returned
    /\ last_op' = "report"
    /\ Becomes(MaybeUpdateVolumeLevelFromDevice(Cur, level, volume_db_range))
    /\ UNCHANGED call
    /\ OrderFrame

NextOrder ==
    \/ \E volume \in OrderIssueVolumes : IssueCalled(volume)
    \/ IssueStatement
    \/ DeviceAnswers
    \/ \E level \in OrderReportLevels : OtherReport(level)

SpecOrder == InitOrder /\ [][NextOrder]_vars

----------------------------------------------------------------------------
(* Targets configured with a range at or beyond the ends of 1..61, driven  *)
(* by the volume, mute, connectivity and line-input handlers.              *)

\* configured ranges: one below the valid ones, one valid, one above them
RangeConfigs == {0, 4, 100}

\* reported levels whose volume is a whole number of steps under each of the
\* ranges 1, 4 and 61
RangeReportLevels == {IntLevel(0), IntLevel(MuteLevel - 1), MuteToken}

InitRange ==
    /\ kind \in {"zone", "group"}
    /\ use_optimistic_volume = TRUE
    /\ config_volume_db_range \in RangeConfigs
    /\ volume_db_range = ClampDbRange(config_volume_db_range)
    /\ use_zone_labels = TRUE
    /\ sources_by_id = InitialSources
    /\ Starts(NewTarget(kind, None))
    /\ sent = <<>>
    /\ last_op = "init"
    /\ reports_since_issue = 0
    /\ replaced_volume = None
    /\ round_trip = None
    /\ Alone

NextRange ==
    \/ \E level \in RangeReportLevels : OnReport(level)
    \/ \E volume \in EventIssueVolumes : Issue(volume)
    \/ VolumeUp
    \/ VolumeDown
    \/ Mute
    \/ Unmute
    \/ Connected
    \/ Disconnected
    \/ \E enabled_inputs \in LineInputReports : LineInputsReceived(enabled_inputs)

SpecRange == InitRange /\ [][NextRange]_vars

----------------------------------------------------------------------------
(* The conversions between volume and level on their own, for every        *)
(* configured range.  A volume n/CodecUnits is counted in steps of         *)
(* 1/(CodecUnits * range), so that the division of the decoding is exact.  *)

\* volumes are drawn in steps of 1/160: the steps of 0.05, the levels of a
\* range of 40, the ties between two such levels and the points between
CodecUnits == 160

\* the configured ranges: all the valid ones, one below and one above
CodecConfigs == 0..62

CodecLevels == 0..MuteLevel

\* the steps a volume of 1.0 has under the range
ScaledUnits(range) == CodecUnits * range

\* the volumes a conversion is handed, in those steps
CodecVolumes(range) == {n * range : n \in 0..CodecUnits}

\* round() of the float product that stands for n/d: when n/d lies halfway
\* between two integers the product may fall on either side of the tie
Roundings(n, d) ==
    IF 2 * (n % d) = d THEN {n \div d, (n \div d) + 1} ELSE {Round(n, d)}

\* variant: the level is cut with int() where the code rounds it
EncodeLevelsIn_Truncates(units, volume, range) ==
    IF volume = 0 THEN {range}
    ELSE {Max(0, Min(range, (range * (units - volume)) \div units))}

\* the levels set_volume_level can compute for the volume
EncodeLevelsIn(units, volume, range) ==
    IF volume = 0 THEN {range}
    ELSE {Max(0, Min(range, level)) :
            level \in Roundings(range * (units - volume), units)}

\* the levels the hysteresis check can compute for the volume
CurrentWouldBeLevelsIn(units, volume, range) ==
    IF volume = 0 THEN {range}
    ELSE Roundings(range * (units - volume), units)

\* the operand of the conversion to come: a volume or a level
CodecInputs(range) ==
    {[op |-> "volume", volume |-> volume] : volume \in CodecVolumes(range)}
        \cup {[op |-> "level", level |-> level_int] : level_int \in CodecLevels}

InitCodec ==
    /\ kind = "zone"
    /\ use_optimistic_volume = TRUE
    /\ config_volume_db_range \in CodecConfigs
    /\ volume_db_range = ClampDbRange(config_volume_db_range)
    /\ use_zone_labels = TRUE
    /\ sources_by_id = InitialSources
    /\ Starts(NewTarget(kind, None))
    /\ sent = <<>>
    /\ last_op = "init"
    /\ reports_since_issue = 0
    /\ replaced_volume = None
    /\ round_trip = None
    /\ mixer_zone_entities = <<>>
    /\ mixer_group_entities = <<>>
    /\ commands = <<>>
    /\ \E input \in CodecInputs(volume_db_range) : codec = Some(input)
    /\ call = None
    /\ source_commands = <<>>

\* a conversion writes no field of the target
CodecFrame ==
    UNCHANGED <<Construction, sources_by_id, Fields, sent, last_op,
                reports_since_issue, replaced_volume, round_trip, Others,
                call, source_commands>>

\* set_volume_level: "Convert HA volume to DCM1 level"
Encodes ==
    /\ Val(codec).op = "volume"
    /\ \E level \in EncodeLevelsIn(ScaledUnits(volume_db_range),
                                   Val(codec).volume, volume_db_range) :
         codec' = Some([op |-> "encode", volume |-> Val(codec).volume,
                        level |-> level])
    /\ CodecFrame

\* maybe_update_volume_level_from_device: "Convert DCM1 level to HA volume"
Decodes ==
    /\ Val(codec).op = "level"
    /\ codec' = Some([op |-> "decode", level |-> Val(codec).level,
                      volume |-> DecodeLevelIn(ScaledUnits(volume_db_range),
                                               Val(codec).level,
                                               volume_db_range)])
    /\ CodecFrame

\* the hysteresis check: the level the confirmed volume would be sent as
ConvertsCurrent ==
    /\ Val(codec).op = "volume"
    /\ \E level \in CurrentWouldBeLevelsIn(ScaledUnits(volume_db_range),
                                           Val(codec).volume, volume_db_range) :
         codec' = Some([op |-> "current_would_be",
                        volume |-> Val(codec).volume, level |-> level])
    /\ CodecFrame

\* a volume is encoded and the level it gave is decoded
EncodesAndDecodes ==
    /\ Val(codec).op = "volume"
    /\ \E level \in EncodeLevelsIn(ScaledUnits(volume_db_range),
                                   Val(codec).volume, volume_db_range) :
         codec' = Some([op |-> "round_trip", volume |-> Val(codec).volume,
                        level |-> level,
                        decoded |-> DecodeLevelIn(ScaledUnits(volume_db_range),
                                                  level, volume_db_range)])
    /\ CodecFrame

NextCodec ==
    \/ Encodes
    \/ Decodes
    \/ ConvertsCurrent
    \/ EncodesAndDecodes

SpecCodec == InitCodec /\ [][NextCodec]_vars

----------------------------------------------------------------------------
(* Properties of the reconciliation engine *)

\* the report differs from the level the pending command asked for
Stale(level) ==
    HasPending(Cur) /\ LevelInt(level) # Val(pending_raw_volume_level)

\* the report carries the level the pending command asked for
Matching(level) ==
    HasPending(Cur) /\ LevelInt(level) = Val(pending_raw_volume_level)

\* the fields after maybe_update_volume_level_from_device(level) in this state
AfterReport(level) ==
    MaybeUpdateVolumeLevelFromDevice(Cur, level, volume_db_range)

\* C1: a first or second non-matching report while a command is pending is
\* rejected: the confirmed volume, the raw level, the mute flag, the displayed
\* values and the pending request stay as they are (as does every other
\* field), and the rejection counter goes up by exactly one.
C1_StaleReportRejected ==
    \A level \in ReportLevels :
        (Stale(level) /\ pending_volume_rejected_count < 2)
        => AfterReport(level) =
             [Cur EXCEPT !.pending_volume_rejected_count = @ + 1]

\* the second non-matching report has just been rejected
C1_Witness ==
    /\ last_op = "reject"
    /\ pending_volume_rejected_count = 2
    /\ pending_volume # None

\* C2: a report that carries the pending raw level commits the request: the
\* confirmed volume is the requested volume itself, the raw level is the
\* reported one, the target is unmuted, nothing is pending and the rejection
\* counter is 0, whatever the counter was.
C2_MatchingReportCommits ==
    \A level \in ReportLevels :
        Matching(level)
        => /\ AfterReport(level).volume_level = pending_volume
           /\ AfterReport(level).raw_volume_level = Some(LevelInt(level))
           /\ AfterReport(level).is_volume_muted = FALSE
           /\ AfterReport(level).pending_volume = None
           /\ AfterReport(level).pending_raw_volume_level = None
           /\ AfterReport(level).pending_volume_rejected_count = 0

\* a commit of a requested volume that is not what the level decodes to
C2_Witness ==
    /\ last_op = "commit"
    /\ pending_volume = None
    /\ volume_level # None
    /\ raw_volume_level # None
    /\ Val(volume_level) # DecodeLevel(Val(raw_volume_level), volume_db_range)

\* C3: the third non-matching report, carrying a non-mute level L, clears the
\* pending command and sets the confirmed volume to decode(L), whatever the
\* confirmed volume was before.
C3_GiveUpAdoptsReport ==
    [][\A level \in ReportLevels :
         (/\ Stale(level)
          /\ pending_volume_rejected_count = 2
          /\ LevelInt(level) # MuteLevel
          /\ OnReport(level))
         => /\ pending_volume' = None
            /\ volume_level' = Some(DecodeLevel(LevelInt(level), volume_db_range))]_vars

\* C4: a command never stays pending across more than 3 reports: once three
\* reports have been handled since the command was issued, nothing is pending.
C4_BoundedResponse ==
    pending_volume # None => reports_since_issue < 3

\* the third report after an issue has just cleared the pending command
C4_Witness ==
    /\ last_op = "giveup"
    /\ pending_volume = None
    /\ pending_volume_rejected_count = 0

\* C5: with nothing pending, a non-mute report whose level is the one the
\* confirmed volume encodes to leaves the confirmed volume as it is; any other
\* non-mute report, or one received while the confirmed volume is unset, sets
\* the confirmed volume to decode(level).
C5_Hysteresis ==
    \A level \in ReportLevels :
        (pending_volume = None /\ LevelInt(level) # MuteLevel)
        => IF /\ volume_level # None
              /\ EncodeVolume(Val(volume_level), volume_db_range) = LevelInt(level)
           THEN AfterReport(level).volume_level = volume_level
           ELSE AfterReport(level).volume_level =
                  Some(DecodeLevel(LevelInt(level), volume_db_range))

\* a report was accepted with nothing pending and the confirmed volume was
\* kept although the level decodes to another volume
C5_Witness ==
    /\ last_op = "accept"
    /\ ~is_volume_muted
    /\ volume_level # None
    /\ raw_volume_level # None
    /\ Val(raw_volume_level) # MuteLevel
    /\ Val(volume_level) # DecodeLevel(Val(raw_volume_level), volume_db_range)

\* the pending command after set_volume_level(volume)
IssuedPending(volume) ==
    /\ pending_volume' = Some(volume)
    /\ pending_raw_volume_level' = Some(EncodeVolume(volume, volume_db_range))
    /\ pending_volume_rejected_count' = 0

\* the command that was pending when the pending one was issued asked for
\* another level, and the report carries that other level
ReportOfReplaced(level) ==
    /\ HasPending(Cur)
    /\ replaced_volume # None
    /\ EncodeVolume(Val(replaced_volume), volume_db_range) # Val(pending_raw_volume_level)
    /\ LevelInt(level) = EncodeVolume(Val(replaced_volume), volume_db_range)

\* C6 as stated: set_volume_level leaves exactly the new request pending with
\* a rejection counter of 0, and a report at the level of the replaced
\* command never sets the confirmed volume to the replaced volume.
C6_ReplacedNeverConfirmed ==
    [][/\ \A volume \in IssueVolumes :
            IssueReplacing(volume) => IssuedPending(volume)
       /\ \A level \in ReportLevels :
            (ReportOfReplaced(level) /\ OnReportReplacing(level))
            => (volume_level' # volume_level => volume_level' # replaced_volume)]_vars

\* C6 amended: set_volume_level leaves exactly the new request pending with a
\* rejection counter of 0; a report at the level of the replaced command is
\* non-matching: it never commits, as the first or second non-matching
\* report it leaves the confirmed volume and the pending request as they are,
\* and only as the third one (give-up) can it change the confirmed volume.
C6_NewestIntentWins ==
    [][/\ \A volume \in IssueVolumes :
            IssueReplacing(volume) => IssuedPending(volume)
       /\ \A level \in ReportLevels :
            (ReportOfReplaced(level) /\ OnReportReplacing(level))
            => /\ last_op' \in {"reject", "giveup"}
               /\ pending_volume_rejected_count < 2
                    => /\ UNCHANGED <<volume_level, pending_volume,
                                      pending_raw_volume_level>>
                       /\ pending_volume_rejected_count' =
                            pending_volume_rejected_count + 1]_vars

\* a report at the replaced command's level has been rejected while the
\* newer command is still pending
C6_Witness ==
    /\ last_op = "reject"
    /\ replaced_volume # None
    /\ pending_volume # None
    /\ EncodeVolume(Val(replaced_volume), volume_db_range) # Val(pending_raw_volume_level)

\* the fields after set_volume_level(volume) in this state
AfterIssue(volume) ==
    SetVolumeLevel(Cur, volume, volume_db_range, use_optimistic_volume)

\* the frame of set_volume_level(volume): confirmed state and saved mute level
\* untouched, displayed volume set only in optimistic mode
IssueFrame(volume) ==
    /\ AfterIssue(volume).volume_level = volume_level
    /\ AfterIssue(volume).raw_volume_level = raw_volume_level
    /\ AfterIssue(volume).is_volume_muted = is_volume_muted
    /\ AfterIssue(volume).pre_mute_raw_volume = pre_mute_raw_volume
    /\ AfterIssue(volume).attr_volume_level =
         IF use_optimistic_volume THEN Some(volume) ELSE attr_volume_level

\* C7: set_volume_level (called directly or by a volume step) never changes
\* the confirmed volume, the raw level, the mute flag or the saved pre-mute
\* level; in optimistic mode the displayed volume becomes the requested one at
\* once, otherwise it stays and changes only when a report is accepted.
C7_IssueFrame ==
    /\ [](\A volume \in IssueVolumes : IssueFrame(volume))
    /\ [](volume_level # None
            => IssueFrame(StepUpVolume(Cur)) /\ IssueFrame(StepDownVolume(Cur)))
    /\ [][(~use_optimistic_volume /\ attr_volume_level' # attr_volume_level)
            => last_op' \in {"commit", "giveup", "accept"}]_vars

\* a request was issued without optimistic display and the displayed volume
\* still shows the confirmed one
C7_Witness ==
    /\ last_op = "issue"
    /\ ~use_optimistic_volume
    /\ volume_level # None
    /\ attr_volume_level = volume_level
    /\ pending_volume # volume_level

\* C8: with nothing pending the displayed volume is the confirmed volume, with
\* a command pending in optimistic mode it is the requested volume, and the
\* displayed mute flag is the mute flag.
C8_DisplayedValue ==
    /\ pending_volume = None => DisplayedVolume(Cur) = volume_level
    /\ (pending_volume # None /\ use_optimistic_volume)
         => DisplayedVolume(Cur) = pending_volume
    /\ DisplayedMuted(Cur) = is_volume_muted

\* C9: the raw level is the mute sentinel 62 exactly when the target is muted.
C9_MuteSentinelIffMuted ==
    (raw_volume_level = Some(MuteLevel)) <=> is_volume_muted

\* C10: from every reachable state a report of the "mute" token and a report
\* of the integer level 62 take the same branch and leave the same fields.
C10_MuteTokenSameAsSentinel ==
    /\ ReportBranch(Cur, MuteToken) = ReportBranch(Cur, IntLevel(MuteLevel))
    /\ MaybeUpdateVolumeLevelFromDevice(Cur, MuteToken, volume_db_range)
         = MaybeUpdateVolumeLevelFromDevice(Cur, IntLevel(MuteLevel), volume_db_range)

----------------------------------------------------------------------------
(* Mute and restore *)

\* a report that carries the mute sentinel, as the token or as the integer 62
MuteReports == {level \in ReportLevels : LevelInt(level) = MuteLevel}

\* C11: a mute report that is accepted (nothing pending, or the third
\* non-matching report) sets the mute flag and the raw level 62 and leaves the
\* confirmed volume as it was.
C11_MuteReportKeepsVolume ==
    [][\A level \in MuteReports :
         (ReportBranch(Cur, level) \in {"accept", "giveup"} /\ OnReport(level))
           => /\ is_volume_muted'
              /\ raw_volume_level' = Some(MuteLevel)
              /\ volume_level' = volume_level]_vars

\* the fields after mute_volume(mute) in this state
AfterMute(mute) == MuteVolume(Cur, mute)

\* C12: mute_volume(True) saves the raw level as the pre-mute level, sends
\* exactly one command, of level 62, and leaves the pending command, the
\* rejection count, the mute flag, the confirmed volume and the raw level
\* alone; the mute flag only turns on when a report of level 62 is accepted.
C12_MuteIsFireAndForget ==
    /\ [](/\ AfterMute(TRUE).pre_mute_raw_volume = raw_volume_level
          /\ AfterMute(TRUE).pending_volume = pending_volume
          /\ AfterMute(TRUE).pending_raw_volume_level = pending_raw_volume_level
          /\ AfterMute(TRUE).pending_volume_rejected_count
               = pending_volume_rejected_count
          /\ AfterMute(TRUE).is_volume_muted = is_volume_muted
          /\ AfterMute(TRUE).volume_level = volume_level
          /\ AfterMute(TRUE).raw_volume_level = raw_volume_level)
    /\ [][last_op' = "mute" => sent' = <<MuteLevel>>]_vars
    /\ [][(~is_volume_muted /\ is_volume_muted')
            => /\ last_op' \in {"accept", "giveup"}
               /\ raw_volume_level' = Some(MuteLevel)]_vars

\* mute_volume(True) has just run on an unmuted target whose raw level is
\* known: the level is saved, 62 is sent, and the target is still unmuted
C12_Witness ==
    /\ last_op = "mute"
    /\ sent = <<MuteLevel>>
    /\ ~is_volume_muted
    /\ raw_volume_level # None
    /\ pre_mute_raw_volume = raw_volume_level

\* the level the restore rule asks for in this state
RestoreLevel ==
    IF pre_mute_raw_volume # None THEN Val(pre_mute_raw_volume)
    ELSE IF volume_level # None /\ Val(volume_level) > 0
         THEN EncodeVolume(Val(volume_level), volume_db_range)
    ELSE volume_db_range \div 2

\* C13: mute_volume(False) sends the saved pre-mute level when there is one,
\* otherwise the encoding of the confirmed volume when that is set and above
\* zero, otherwise half the dB range rounded down; afterwards no pre-mute
\* level is saved.
C13_RestoreLevel ==
    [][last_op' = "unmute"
         => sent' = <<RestoreLevel>> /\ pre_mute_raw_volume' = None]_vars

\* mute_volume(False) ran with no saved level and no confirmed volume and sent
\* half the dB range
C13_Witness ==
    /\ last_op = "unmute"
    /\ raw_volume_level = None
    /\ volume_level = None
    /\ pre_mute_raw_volume = None
    /\ sent = <<volume_db_range \div 2>>

\* C14 as written: right after mute_volume(False) a command is pending for
\* the restore level with a rejection count of zero.
C14_UnmuteGoesThroughIssue ==
    [][last_op' = "unmute"
         => /\ pending_volume' # None
            /\ pending_raw_volume_level' = Some(sent'[1])
            /\ pending_volume_rejected_count' = 0]_vars

\* C14: mute_volume(False) sends its restore level straight to the device:
\* the pending command and the rejection count are what they were before, so
\* with nothing pending the next report, whatever its level, is accepted.
C14_UnmuteBypassesIssue ==
    /\ [](/\ AfterMute(FALSE).pending_volume = pending_volume
          /\ AfterMute(FALSE).pending_raw_volume_level = pending_raw_volume_level
          /\ AfterMute(FALSE).pending_volume_rejected_count
               = pending_volume_rejected_count)
    /\ [][last_op' = "unmute"
            => UNCHANGED <<pending_volume, pending_raw_volume_level,
                           pending_volume_rejected_count>>]_vars
    /\ []((last_op = "unmute" /\ pending_volume = None)
            => \A level \in ReportLevels : ReportBranch(Cur, level) = "accept")

\* mute_volume(False) has sent a restore level while the target is muted and
\* nothing is pending
C14_Witness ==
    /\ last_op = "unmute"
    /\ is_volume_muted
    /\ pending_volume = None
    /\ sent # <<>>

\* C17: the confirmed volume is unset or between 0.0 and 1.0, and the raw
\* level is unset or between 0 and 62.
C17_DomainInvariant ==
    /\ volume_level = None \/ Val(volume_level) \in 0..VolUnits
    /\ raw_volume_level = None \/ Val(raw_volume_level) \in 0..MuteLevel

\* a volume step at the top of the scale was confirmed: full volume at raw
\* level 0
C17_Witness ==
    /\ last_op = "commit"
    /\ volume_level = Some(VolUnits)
    /\ raw_volume_level = Some(0)

\* C15: a round trip mute_volume(True); report "mute"; mute_volume(False);
\* report L, started with nothing pending from an unmuted target with
\* confirmed volume V and raw level L below 62, sends 62 and then L and ends
\* unmuted with raw level L and confirmed volume V.
C15_MuteRoundTrip ==
    round_trip # None
    => LET trip == Val(round_trip) IN
       /\ trip.step = 1 => sent = <<MuteLevel>>
       /\ trip.step = 2 => is_volume_muted /\ volume_level = Some(trip.volume)
       /\ trip.step = 3 => sent = <<trip.level>>
       /\ trip.step = 4 => /\ ~is_volume_muted
                           /\ raw_volume_level = Some(trip.level)
                           /\ volume_level = Some(trip.volume)

\* a round trip has ended, from a confirmed volume that is not the one its
\* raw level decodes to
C15_Witness ==
    /\ round_trip # None
    /\ Val(round_trip).step = 4
    /\ Val(round_trip).volume
         # DecodeLevel(Val(round_trip).level, volume_db_range)

----------------------------------------------------------------------------
(* Levels outside the domain *)

\* C16: a report whose level is negative or above 62 is discarded: the
\* confirmed volume, the raw level, the mute flag, the pending command and
\* the rejection count are the same after it as before.
C16_OutOfDomainDiscarded ==
    [][\A level \in OutOfDomainLevels :
         OnReport(level)
           => UNCHANGED <<volume_level, raw_volume_level, is_volume_muted,
                          pending_volume, pending_raw_volume_level,
                          pending_volume_rejected_count>>]_vars

\* C18: every level handed to the device by set_volume_level, the volume
\* steps and mute_volume is in 0..62, whatever reports were delivered.
C18_SentLevelInRange ==
    \A i \in 1..Len(sent) : sent[i] \in 0..MuteLevel

----------------------------------------------------------------------------
(* Lifecycle of the pending command *)

\* the record s has the pending command and the rejection count of this state
SamePending(s) ==
    /\ s.pending_volume = pending_volume
    /\ s.pending_raw_volume_level = pending_raw_volume_level
    /\ s.pending_volume_rejected_count = pending_volume_rejected_count

\* C20: a command becomes pending only through set_volume_level, called
\* directly or by a volume step or an unmute; it stops being pending only when
\* a matching report or the third non-matching report is handled;
\* mute_volume(True) and the connectivity, source, label and line-input
\* events leave the pending command as it is.
C20_PendingLifecycle ==
    /\ [][(pending_volume = None /\ pending_volume' # None)
            => last_op' \in {"issue", "volume_up", "volume_down", "unmute"}]_vars
    /\ [][(pending_volume # None /\ pending_volume' = None)
            => last_op' \in {"commit", "giveup"}]_vars
    /\ [](/\ SamePending(MuteVolume(Cur, TRUE))
          /\ SamePending(SetAvailable(Cur, TRUE))
          /\ SamePending(SetAvailable(Cur, FALSE))
          /\ \A source_id \in SourceReports :
               SamePending(SetSource(Cur, source_id, sources_by_id))
          /\ \A label \in Labels :
               SamePending(SetName(Cur, kind, label, use_zone_labels))
          /\ \A enabled_inputs \in LineInputReports :
               SamePending(UpdateEnabledInputs(Cur, enabled_inputs, sources_by_id))
          /\ \A sources \in Catalogues :
               SamePending(UpdateSourceList(Cur, sources)))

\* a command is pending on a target that has lost its connection, after a
\* source report, a label report, a line-input report and a catalogue change
C20_Witness ==
    /\ pending_volume # None
    /\ attr_available = Some(FALSE)
    /\ attr_source = Some(1)
    /\ enabled_line_inputs # NoInputs
    /\ sources_by_id # InitialSources
    /\ device_name \in Labels

----------------------------------------------------------------------------
(* Connectivity *)

\* the reconciliation state of a target
EngineState(s) ==
    <<s.volume_level, s.raw_volume_level, s.is_volume_muted, s.pending_volume,
      s.pending_raw_volume_level, s.pending_volume_rejected_count,
      s.pre_mute_raw_volume>>

\* every zone and group is marked available / unavailable and has kept its
\* reconciliation state
AllMarked(available) ==
    /\ \A zone_id \in ZoneIds :
         /\ mixer_zone_entities'[zone_id].attr_available = Some(available)
         /\ EngineState(mixer_zone_entities'[zone_id])
              = EngineState(mixer_zone_entities[zone_id])
    /\ \A group_id \in GroupIds :
         /\ mixer_group_entities'[group_id].attr_available = Some(available)
         /\ EngineState(mixer_group_entities'[group_id])
              = EngineState(mixer_group_entities[group_id])

\* C21: a disconnect marks every zone and group unavailable, a connect marks
\* every one available, and neither changes a target's confirmed volume, raw
\* level, mute flag, pending command, rejection count or saved pre-mute
\* level; a disconnect followed by a connect leaves each target's
\* reconciliation state as it was.
C21_Connectivity ==
    /\ [][last_op' = "disconnected" => AllMarked(FALSE)]_vars
    /\ [][last_op' = "connected" => AllMarked(TRUE)]_vars
    /\ [](LET l == SetAllAvailable(SetAllAvailable(Listener, FALSE), TRUE) IN
            /\ \A zone_id \in ZoneIds :
                 EngineState(l.zones[zone_id])
                   = EngineState(mixer_zone_entities[zone_id])
            /\ \A group_id \in GroupIds :
                 EngineState(l.groups[group_id])
                   = EngineState(mixer_group_entities[group_id]))

\* the connection was lost while a zone had a command pending and the group
\* had a confirmed volume: all are unavailable and have kept their state
C21_Witness ==
    /\ last_op = "disconnected"
    /\ mixer_zone_entities[1].pending_volume # None
    /\ mixer_zone_entities[1].attr_available = Some(FALSE)
    /\ mixer_zone_entities[2].attr_available = Some(FALSE)
    /\ mixer_group_entities[1].volume_level # None
    /\ mixer_group_entities[1].attr_available = Some(FALSE)

----------------------------------------------------------------------------
(* Target independence *)

\* the dicts l differ from the listener's at most in the zone zone_id
OnlyZone(l, zone_id) ==
    /\ l.groups = mixer_group_entities
    /\ \A other \in ZoneIds \ {zone_id} : l.zones[other] = mixer_zone_entities[other]

\* the dicts l differ from the listener's at most in the group group_id
OnlyGroup(l, group_id) ==
    /\ l.zones = mixer_zone_entities
    /\ \A other \in GroupIds \ {group_id} : l.groups[other] = mixer_group_entities[other]

\* C28: a volume report for zone z changes only the zone z, no other zone and
\* no group, not even the group with the same id; a report for an id without
\* a target changes nothing; the same holds for group reports; and
\* set_volume_level or mute_volume on one target changes no other target.
C28_TargetIndependence ==
    /\ [](\A id \in ReportedIds, level \in ListenerReportLevels :
            /\ OnlyZone(ZoneVolumeLevelReceived(Listener, id, level,
                                                volume_db_range), id)
            /\ id \notin ZoneIds
                 => ZoneVolumeLevelReceived(Listener, id, level,
                                            volume_db_range) = Listener
            /\ OnlyGroup(GroupVolumeLevelReceived(Listener, id, level,
                                                  volume_db_range), id)
            /\ id \notin GroupIds
                 => GroupVolumeLevelReceived(Listener, id, level,
                                             volume_db_range) = Listener)
    /\ [][last_op' \in {"zone_report", "zone_issue", "zone_mute"}
            => \E zone_id \in ReportedIds :
                 OnlyZone([zones |-> mixer_zone_entities',
                           groups |-> mixer_group_entities'], zone_id)]_vars
    /\ [][last_op' \in {"group_report", "group_issue", "group_mute"}
            => \E group_id \in ReportedIds :
                 OnlyGroup([zones |-> mixer_zone_entities',
                            groups |-> mixer_group_entities'], group_id)]_vars

\* a report for zone 1 was handled: zone 1 has a confirmed volume while zone 2
\* and group 1 have never been touched
C28_Witness ==
    /\ last_op = "zone_report"
    /\ mixer_zone_entities[1].volume_level # None
    /\ mixer_zone_entities[2] = NewTarget("zone", None)
    /\ mixer_group_entities[1] = NewTarget("group", None)

----------------------------------------------------------------------------
(* Volume steps *)

\* the volume a step from the displayed volume asks for
SteppedFromDisplayed(up) ==
    IF up THEN Min(VolUnits, Val(DisplayedVolume(Cur)) + VolStep)
    ELSE Max(0, Val(DisplayedVolume(Cur)) - VolStep)

\* C22: volume_up / volume_down take the displayed volume (with the optimistic
\* display and a command pending: the requested volume), move it by 0.05,
\* clamp it to [0.0, 1.0] and pass it to set_volume_level; when no volume is
\* displayed they send nothing and leave the pending command alone.
C22_StepsFromDisplayed ==
    [][last_op' \in {"volume_up", "volume_down"}
         => IF DisplayedVolume(Cur) # None
            THEN /\ pending_volume' = Some(SteppedFromDisplayed(last_op' = "volume_up"))
                 /\ sent' = SetVolumeLevelSent(SteppedFromDisplayed(last_op' = "volume_up"),
                                               volume_db_range)
            ELSE /\ sent' = <<>>
                 /\ UNCHANGED <<pending_volume, pending_raw_volume_level,
                                pending_volume_rejected_count>>]_vars

----------------------------------------------------------------------------
(* The conversions *)

\* the integer level is a nearest one to range * (1 - volume), for a volume
\* counted in steps of 1/units
NearestLevel(units, volume, range, level) ==
    LET diff == level * units - range * (units - volume)
    IN  2 * diff <= units /\ 2 * (0 - diff) <= units

\* the volume is 0.0 for a level from range on, 1 - level/range below it
VolumeOfLevel(units, level, range, volume) ==
    IF level >= range THEN volume = 0
    ELSE volume * range = units * (range - level)

\* the levels whose volume is a whole number of steps of 0.05
WholeStepLevels(range) ==
    {level \in CodecLevels : level >= range \/ (level * VolUnits) % range = 0}

\* C23: for every range in 1..61 the level of volume 0.0 is the range and
\* the level of any other volume is range * (1 - volume) rounded and kept in
\* 0..range, so set_volume_level sends a level in 0..range; the volume of a
\* level is 0.0 from the range on and 1 - level/range below it; and
\* set_volume_level, the report handler, the hysteresis check and the
\* constructor all convert that way.
C23_Codec ==
    LET range == volume_db_range
        units == ScaledUnits(range)
    IN  /\ range \in 1..61
        /\ Val(codec).op \in {"encode", "current_would_be"}
             => /\ Val(codec).level \in 0..range
                /\ Val(codec).volume = 0 => Val(codec).level = range
                /\ NearestLevel(units, Val(codec).volume, range, Val(codec).level)
        /\ Val(codec).op = "decode"
             => /\ VolumeOfLevel(units, Val(codec).level, range, Val(codec).volume)
                /\ Val(codec).volume \in 0..units
        /\ Val(codec).op = "volume" /\ Val(codec).volume = 0 => \A volume \in Volumes :
             LET after == SetVolumeLevel(Cur, volume, range, use_optimistic_volume)
             IN  /\ SetVolumeLevelSent(volume, range) = <<Val(after.pending_raw_volume_level)>>
                 /\ Val(after.pending_raw_volume_level) \in 0..range
                 /\ volume = 0 => Val(after.pending_raw_volume_level) = range
                 /\ NearestLevel(VolUnits, volume, range,
                                 Val(after.pending_raw_volume_level))
        /\ Val(codec).op = "level" /\ Val(codec).level = 0 => \A level \in WholeStepLevels(range) :
             /\ VolumeOfLevel(VolUnits, level, range,
                    Val(MaybeUpdateVolumeLevelFromDevice(Cur, IntLevel(level),
                                                         range).volume_level))
             /\ \A k \in {"zone", "group"} :
                  VolumeOfLevel(VolUnits, level, range,
                     Val(InitTarget(k, Some(IntLevel(level)), range).volume_level))
             /\ level <= range
                  => CurrentWouldBe(DecodeLevel(level, range), range) = level

\* the volume 53/160, which lies between two levels, was encoded under a
\* range of 61
C23_Witness ==
    /\ volume_db_range = 61
    /\ Val(codec).op = "encode"
    /\ Val(codec).volume = 61 * 53
    /\ Val(codec).level = 41

\* the range of the round-trip property
RoundTripRange == 40

\* C24: under a range of 40, a volume that is not encoded as the boundary
\* level 0 or 40 comes back from encoding and decoding as a multiple of 1/40
\* nearest to it (at most 1/80 away).
C24_CodecRoundTrip ==
    LET step == ScaledUnits(RoundTripRange) \div RoundTripRange
        diff == Val(codec).decoded - Val(codec).volume
    IN  /\ volume_db_range = RoundTripRange
        /\ Val(codec).op = "round_trip"
        /\ Val(codec).level \notin {0, RoundTripRange}
        => /\ Val(codec).decoded % step = 0
           /\ 2 * diff <= step
           /\ 2 * (0 - diff) <= step

\* the volume 53/160 went through level 27 and came back as 13/40
C24_Witness ==
    /\ volume_db_range = RoundTripRange
    /\ Val(codec).op = "round_trip"
    /\ Val(codec).volume = 53 * RoundTripRange
    /\ Val(codec).level = 27
    /\ Val(codec).decoded = 13 * CodecUnits

----------------------------------------------------------------------------
(* The configured range *)

\* C25: the range of a target is the configured value brought into 1..61 (1
\* for a value below 1, 61 for a value above 61) when the target is
\* constructed, and no volume, mute, report, step, connectivity or
\* line-input handler changes it.
C25_RangeClampedAndFixed ==
    /\ [](volume_db_range =
            IF config_volume_db_range < 1 THEN 1
            ELSE IF config_volume_db_range > 61 THEN 61
            ELSE config_volume_db_range)
    /\ [][volume_db_range' = volume_db_range]_vars

\* a target configured with 100 has sent a command, lost the connection and
\* received its line inputs: its range is 61
C25_Witness ==
    /\ config_volume_db_range = 100
    /\ volume_db_range = 61
    /\ pending_volume # None
    /\ attr_available = Some(FALSE)
    /\ enabled_line_inputs # NoInputs

----------------------------------------------------------------------------
(* The source list *)

\* the source is in the list
Listed(list, source_id) == \E i \in 1..Len(list) : list[i] = source_id

\* the received data enable the line input
EnabledIn(enabled_inputs, source_id) ==
    source_id \in DOMAIN enabled_inputs /\ enabled_inputs[source_id]

\* the list holds, of the catalogue, the line inputs (ids 1..8) the data
\* enable and every other source
Filtered(list, enabled_inputs, sources) ==
    /\ \A i \in 1..Len(list) : InCatalogue(sources, list[i])
    /\ \A i \in 1..Len(sources) :
         Listed(list, sources[i])
           <=> (sources[i] \in 1..8 => EnabledIn(enabled_inputs, sources[i]))

\* C26: after any line-input report the source list holds a source with id
\* in 1..8 if and only if the reported data enable it, and holds every
\* catalogue source with another id; and the list is built again, by the same
\* rule, on a change of the catalogue.
C26_SourceFilter ==
    \A enabled_inputs \in LineInputReports :
        LET after == UpdateEnabledInputs(Cur, enabled_inputs, sources_by_id)
        IN  /\ Filtered(after.attr_source_list, enabled_inputs, sources_by_id)
            /\ \A sources \in Catalogues :
                 Filtered(UpdateSourceList(after, sources).attr_source_list,
                          enabled_inputs, sources)

\* a line input of the catalogue that the data do not enable
SomeInputDisabled(enabled_inputs, sources) ==
    \E i \in 1..Len(sources) :
        sources[i] \in 1..8 /\ ~EnabledIn(enabled_inputs, sources[i])

\* C27: while no line-input data have been received the source list is the
\* whole catalogue; once data have been received the list is never again the
\* whole catalogue by fallback, that is, while the data leave a line input of
\* the catalogue disabled.
C27_FallbackOnlyBeforeData ==
    /\ enabled_line_inputs = NoInputs => attr_source_list = sources_by_id
    /\ \A enabled_inputs \in LineInputReports, sources \in Catalogues :
         LET after == UpdateSourceList(
                         UpdateEnabledInputs(Cur, enabled_inputs, sources_by_id),
                         sources)
         IN  SomeInputDisabled(enabled_inputs, sources)
               => after.attr_source_list # sources

----------------------------------------------------------------------------
(* Zones and groups *)

\* C29: a zone and a group constructed with the same range, the same display
\* mode and the same initial level ("mute" and no level included) and given
\* the same reports and the same set_volume_level, mute_volume, volume_up and
\* volume_down calls agree after every step on the confirmed volume, the raw
\* level, the mute state, the pending command, the rejection count, the saved
\* pre-mute level, the displayed volume and the displayed mute flag, and have
\* handed the same levels to the mixer.
C29_ZoneAndGroupAgree ==
    last_op # "init"
    => /\ EngineState(PairZone) = EngineState(PairGroup)
       /\ DisplayedVolume(PairZone) = DisplayedVolume(PairGroup)
       /\ DisplayedMuted(PairZone) = DisplayedMuted(PairGroup)
       /\ commands[1] = commands[2]

----------------------------------------------------------------------------
(* The order of the statements of set_volume_level *)

\* C30: set_volume_level stores the request (volume, level, rejection count
\* 0) before it hands the command to the mixer, and hands over exactly one
\* command, with the level the volume converts to; so the device's answer to
\* that command is never handled before the request has been stored, and
\* unless other reports were rejected in between it finds that request
\* pending.
C30_RecordedBeforeSent ==
    /\ [][last_op' = "send"
            => /\ Val(call).recorded
               /\ pending_volume = Some(Val(call).volume)
               /\ pending_raw_volume_level = Some(Val(call).level)
               /\ pending_volume_rejected_count = 0
               /\ Val(call').handed
                    = <<EncodeVolume(Val(call).volume, volume_db_range)>>]_vars
    /\ [][last_op' = "answer"
            => /\ Val(call).recorded
               /\ HasPending(Cur) /\ Val(call).at > Len(SetVolumeLevelOrder)
                    => Val(pending_raw_volume_level) = Val(call).handed[1]
                       \/ pending_volume_rejected_count > 0]_vars
    /\ [](call # None /\ Val(call).at > Len(SetVolumeLevelOrder)
            => Val(call).handed = SetVolumeLevelSent(Val(call).volume,
                                                     volume_db_range))

\* the device answered the command of a finished call, and the answer
\* confirmed the request: the requested volume is the confirmed one
C30_Witness ==
    /\ last_op = "answer"
    /\ call # None
    /\ Val(call).at > Len(SetVolumeLevelOrder)
    /\ Val(call).answered
    /\ pending_volume = None
    /\ volume_level = Some(Val(call).volume)

----------------------------------------------------------------------------
(* Reports send nothing *)

\* C31: handling a report hands no command to the mixer, whichever branch it
\* takes; in particular the third non-matching report, which gives the
\* pending command up, does not send that command again.
C31_ReportSendsNothing ==
    /\ last_op \in {"reject", "giveup", "commit", "accept"} => sent = <<>>
    /\ \A level \in ReportLevels :
         MaybeUpdateVolumeLevelFromDeviceSent(Cur, level) = <<>>

\* the third non-matching report has just given the pending command up, and
\* nothing was sent
C31_Witness ==
    /\ last_op = "giveup"
    /\ reports_since_issue = 0
    /\ pending_volume = None
    /\ sent = <<>>

----------------------------------------------------------------------------
(* Two requests for the same level *)

\* the pending command replaced a command for another volume that converts to
\* the same level
ReplacedSameLevel ==
    /\ HasPending(Cur)
    /\ replaced_volume # None
    /\ replaced_volume # pending_volume
    /\ EncodeVolume(Val(replaced_volume), volume_db_range)
         = Val(pending_raw_volume_level)

\* C32: after set_volume_level(v1) and then set_volume_level(v2), with v1 and
\* v2 different volumes of the same level, a report of that level commits v2
\* as the confirmed volume, never v1, and leaves nothing pending, although the
\* first command may have caused the report.
C32_SameLevelCommitsNewest ==
    /\ [](ReplacedSameLevel
            => LET after == AfterReport(IntLevel(Val(pending_raw_volume_level)))
               IN  /\ after.volume_level = pending_volume
                   /\ after.volume_level # replaced_volume
                   /\ after.pending_volume = None
                   /\ after.pending_raw_volume_level = None)
    /\ [][\A volume \in IssueVolumes :
            (/\ pending_volume # None
             /\ pending_volume # Some(volume)
             /\ IssueReplacing(volume))
            => pending_volume' = Some(volume) /\ replaced_volume' = pending_volume]_vars

\* 0.55 was requested while the request for 0.5 was pending; both are level 2
C32_Witness ==
    /\ last_op = "issue"
    /\ ReplacedSameLevel
    /\ replaced_volume = Some(10)
    /\ pending_volume = Some(11)

----------------------------------------------------------------------------
(* Construction and the first report *)

\* the confirmed state of a target
Confirmed(s) == <<s.volume_level, s.raw_volume_level, s.is_volume_muted>>

\* nothing is pending
Idle(s) ==
    /\ s.pending_volume = None
    /\ s.pending_raw_volume_level = None
    /\ s.pending_volume_rejected_count = 0

\* C33: a target constructed from an initial level (0..62 or "mute") has the
\* confirmed volume, raw level and mute flag of a target constructed without
\* one that then receives that level as a report, and nothing pending; a
\* target constructed without an initial level has no confirmed volume, no
\* raw level, nothing pending and a rejection counter of 0.
C33_ConstructedAsReported ==
    /\ Idle(InitTarget(kind, None, volume_db_range))
    /\ InitTarget(kind, None, volume_db_range).volume_level = None
    /\ InitTarget(kind, None, volume_db_range).raw_volume_level = None
    /\ \A level \in ReportLevels :
         LET constructed == InitTarget(kind, Some(level), volume_db_range)
             reported == MaybeUpdateVolumeLevelFromDevice(
                             InitTarget(kind, None, volume_db_range), level,
                             volume_db_range)
         IN  /\ Idle(constructed)
             /\ Idle(reported)
             /\ Confirmed(constructed) = Confirmed(reported)

----------------------------------------------------------------------------
(* The rejection counter *)

\* C34: between operations the rejection counter is 0, 1 or 2; it is 0
\* whenever nothing is pending; and it is 0 after every set_volume_level
\* (direct or by a volume step), every commit and every give-up.
C34_RejectionCounter ==
    /\ pending_volume_rejected_count \in 0..(RejectLimit - 1)
    /\ pending_volume = None => pending_volume_rejected_count = 0
    /\ last_op \in {"issue", "commit", "giveup"}
         => pending_volume_rejected_count = 0
    /\ last_op \in {"volume_up", "volume_down"} /\ sent # <<>>
         => pending_volume_rejected_count = 0
    /\ \A volume \in IssueVolumes :
         AfterIssue(volume).pending_volume_rejected_count = 0

\* two reports have been rejected while a command is pending on a muted
\* target: the counter rests at 2
C34_Witness ==
    /\ last_op = "reject"
    /\ is_volume_muted
    /\ pending_volume # None
    /\ pending_volume_rejected_count = RejectLimit - 1
    /\ reports_since_issue = 2

----------------------------------------------------------------------------
(* The pending command *)

\* C35: the pending volume is unset exactly when the pending raw level is;
\* when set, the raw level is the level the pending volume converts to and
\* lies in 0..range, so it is never the mute sentinel 62; a mute report that
\* arrives while a command is pending is therefore non-matching and never
\* commits the command; and past the staleness check a pending command always
\* has the reported level, so the branch that overrides a pending command
\* with the device's value is never taken.
C35_PendingConsistent ==
    /\ (pending_volume = None) <=> (pending_raw_volume_level = None)
    /\ pending_volume # None
         => /\ Val(pending_raw_volume_level)
                 = EncodeVolume(Val(pending_volume), volume_db_range)
            /\ Val(pending_raw_volume_level) \in 0..volume_db_range
            /\ Val(pending_raw_volume_level) # MuteLevel
    /\ \A level \in MuteReports :
         pending_volume # None
           => /\ ReportBranch(Cur, level) \in {"reject", "giveup"}
              /\ AfterReport(level).volume_level # volume_level
                   => AfterReport(level).pending_volume = None
    /\ \A level \in ReportLevels :
         LET checked == StaleCheck(Cur, level)
         IN  (ReportBranch(Cur, level) # "reject" /\ checked.pending_volume # None)
               => checked.pending_raw_volume_level = Some(LevelInt(level))
    /\ last_op = "commit" => ~is_volume_muted /\ raw_volume_level # Some(MuteLevel)

\* a "mute" report was the third non-matching one: the command was given up
\* and the target is muted
C35_Witness ==
    /\ last_op = "giveup"
    /\ is_volume_muted
    /\ raw_volume_level = Some(MuteLevel)
    /\ pending_volume = None
    /\ attr_volume_level # volume_level

----------------------------------------------------------------------------
(* Repeated reports *)

\* the fields a repeated report is compared on
Heartbeat(s) ==
    <<s.volume_level, s.raw_volume_level, s.is_volume_muted,
      s.attr_volume_level, s.attr_is_volume_muted,
      s.pending_volume, s.pending_raw_volume_level,
      s.pending_volume_rejected_count>>

\* C36: with no command pending, the same report processed twice in a row
\* leaves the confirmed volume, confirmed raw level, mute flag, displayed
\* volume and pending fields after the second report as they were after the
\* first.
C36_HeartbeatIdempotent ==
    \A level \in ReportLevels :
      pending_volume = None
        => LET once == AfterReport(level)
           IN  Heartbeat(MaybeUpdateVolumeLevelFromDevice(once, level, volume_db_range))
                 = Heartbeat(once)

\* a report of the level the confirmed volume converts to was accepted with
\* nothing pending, and the confirmed volume, which is not the volume of that
\* level, was kept
C36_Witness ==
    /\ last_op = "accept"
    /\ pending_volume = None
    /\ ~is_volume_muted
    /\ raw_volume_level = Some(2)
    /\ volume_level # None
    /\ volume_level # Some(DecodeLevel(2, volume_db_range))
    /\ EncodeVolume(Val(volume_level), volume_db_range) = 2
    /\ attr_volume_level = volume_level

----------------------------------------------------------------------------
(* The confirmed volume and the confirmed raw level *)

\* C37: in every unmuted state where the confirmed volume and the confirmed
\* raw level are both set they describe the same device level: the volume
\* converts to the raw level, or the raw level converts to the volume.
C37_ConfirmedAgree ==
    (~is_volume_muted /\ volume_level # None /\ raw_volume_level # None)
      => \/ EncodeVolume(Val(volume_level), volume_db_range) = Val(raw_volume_level)
         \/ DecodeLevel(Val(raw_volume_level), volume_db_range) = Val(volume_level)

\* a command was committed: the confirmed volume is the requested one, which
\* converts to the confirmed raw level but is not the volume of that level
C37_Witness ==
    /\ last_op = "commit"
    /\ ~is_volume_muted
    /\ volume_level = Some(11)
    /\ raw_volume_level = Some(2)
    /\ DecodeLevel(2, volume_db_range) # 11

----------------------------------------------------------------------------
(* Unmuting *)

\* C38: the command mute_volume(False) emits never carries the mute sentinel
\* 62, whatever came before (a mute while already muted, two mutes in a row);
\* equivalently the saved pre-mute raw level is never 62.
C38_UnmuteNeverMutes ==
    /\ pre_mute_raw_volume # Some(MuteLevel)
    /\ last_op = "unmute" => sent # <<MuteLevel>>
    /\ MuteVolumeLevel(Cur, FALSE, volume_db_range) # MuteLevel

----------------------------------------------------------------------------
(* Selecting a source *)

\* the source of the catalogue that bears the name, if any
Bears(source_id, source) ==
    InCatalogue(sources_by_id, source_id) /\ SourceName(source_id) = source

\* C39: select_source with a name no source of the catalogue bears hands the
\* mixer no command and changes no field; with a known name it hands the
\* mixer exactly one select-source command, with the id of the source of
\* that name, and does not change the displayed source.  The displayed
\* source changes only when a source report with an id of the catalogue is
\* handled; a source report with an unknown id changes nothing.
C39_SelectSource ==
    /\ [][\A source \in SelectNames :
            SelectSourceCalled(source)
              => /\ UNCHANGED <<Fields, sources_by_id, sent>>
                 /\ (\A source_id \in 1..9 : ~Bears(source_id, source))
                      => source_commands' = <<>>
                 /\ \A source_id \in 1..9 :
                      Bears(source_id, source)
                        => source_commands' = <<<<kind, source_id>>>>]_vars
    /\ [][attr_source' # attr_source
            => /\ last_op' = last_op
               /\ source_commands' = source_commands
               /\ \E source_id \in SourceReports :
                    /\ InCatalogue(sources_by_id, source_id)
                    /\ attr_source' = Some(source_id)]_vars
    /\ [](\A source_id \in SourceReports :
            ~InCatalogue(sources_by_id, source_id)
              => SetSource(Cur, source_id, sources_by_id) = Cur)
    /\ [](\A source \in SelectNames :
            /\ SelectSource(Cur, source, sources_by_id) = Cur
            /\ Len(SelectSourceSent(kind, source, sources_by_id)) <= 1)

\* source 2 of the longer catalogue was selected by name; the displayed
\* source is still the one last reported
C39_Witness ==
    /\ last_op = "select_source"
    /\ source_commands = <<<<kind, 2>>>>
    /\ sources_by_id = <<1, 2, 9>>
    /\ attr_source = Some(1)

\* a name no source bears was selected after a known one: no command
C39_WitnessUnknown ==
    /\ last_op = "select_source"
    /\ source_commands = <<>>
    /\ attr_source = Some(1)

====
